---- MODULE Spec2Model ----
(***************************************************************************)
(* Svitlobot: outage detector (network.py), durable session state          *)
(* (state.py, database.py) and the orchestrator's transition handlers       *)
(* (main.py).                                                               *)
(*                                                                          *)
(* Time.  `clock` is the real (absolute) instant in epoch seconds.  Every   *)
(* datetime of the program is an aware datetime built with                  *)
(* ZoneInfo(TIMEZONE), TIMEZONE = "Europe/Kyiv"; it is modelled by its      *)
(* wall-clock reading and its UTC offset.  Python subtracts two aware       *)
(* datetimes that share one tzinfo object by their wall-clock fields, and   *)
(* ZoneInfo("Europe/Kyiv") is one cached object, so dt_sub is a wall-clock  *)
(* difference, while datetime.timestamp() is the absolute instant.          *)
(***************************************************************************)
EXTENDS Integers, Sequences, FiniteSets, TLC

VARIABLES
  clock,          \* real time, epoch seconds
  tzrule,         \* which UTC-offset change of Europe/Kyiv lies in the window
  running,        \* the process is up (start() has run, no stop/kill since)
  state,          \* StateManager.state : BotState (in memory)
  db,             \* system_state["bot_state"]: None or Some(record)
  power_events,   \* table power_events: sequence of event types
  sent,           \* light notifications delivered by the channel
  monitor,        \* NetworkMonitor fields
  cur_msg,        \* SvitloBot._current_message_id
  volt,           \* VoltageMonitor._running
  schedule_data,  \* SvitloBot.schedule_data
  g_first_fail,   \* history: instant of the first failed probe since the last success / start
  hist,           \* history: what the last step did
  dark,           \* history: how the detector came to its current state
  last_call,      \* history: the last call of set_light_on
  flips,          \* history: successive values taken by the persisted lit flag
  last_save,      \* history: how the record in memory last met the stored one
  cached_data,    \* ScheduleParser.cached_data
  schedule_table, \* table schedule: sequence of stored payloads
  schedule_sent,  \* schedule notifications handed to the channel
  data,           \* schedule payload given to the ScheduleParser functions
  from_time,      \* from_time given to the ScheduleParser functions
  result          \* what the ScheduleParser functions returned

\* schedule synchronisation (main.py:203-258)
sync_vars == <<cached_data, schedule_table, schedule_sent>>

\* arguments and results of the ScheduleParser functions
parser_vars == <<data, from_time, result>>

vars == <<clock, tzrule, running, state, db, power_events, sent, monitor,
          cur_msg, volt, schedule_data, g_first_fail, hist, dark, last_call, flips,
          last_save, sync_vars, parser_vars>>

----------------------------------------------------------------------------
(* Optional values *)
None == << >>
Some(x) == << x >>

(* config.py *)
PING_INTERVAL == 10
PING_TIMEOUT == 5
PING_TIMEOUT_THRESHOLD == 120
(* main.py:138, the extra sleep after a monitor error *)
MONITOR_ERROR_SLEEP == 5
(* Europe/Kyiv: EET = UTC+2, EEST = UTC+3 *)
EET_OFFSET == 7200
EEST_OFFSET == 10800

(* Bounds of the model *)
StartTime == 1000
Horizon == 170
MaxTime == StartTime + Horizon
DstAt == StartTime + 2 * PING_INTERVAL + PING_TIMEOUT
TzRules == {"none", "spring", "autumn"}
Steps == {PING_INTERVAL, 2 * PING_INTERVAL, PING_TIMEOUT_THRESHOLD - PING_INTERVAL,
          PING_TIMEOUT_THRESHOLD}
PingTimes == {0, PING_TIMEOUT}
NoCut == 5

----------------------------------------------------------------------------
(* datetime with ZoneInfo(TIMEZONE) *)

utcoffset(t) ==
  CASE tzrule = "spring" -> IF t < DstAt THEN EET_OFFSET ELSE EEST_OFFSET
    [] tzrule = "autumn" -> IF t < DstAt THEN EEST_OFFSET ELSE EET_OFFSET
    [] OTHER -> EET_OFFSET

\* datetime.now(ZoneInfo(TIMEZONE)) read at real instant t
datetime_now(t) == [wall |-> t + utcoffset(t), off |-> utcoffset(t)]

\* datetime.fromtimestamp(ts, ZoneInfo(TIMEZONE))
fromtimestamp(ts) == [wall |-> ts + utcoffset(ts), off |-> utcoffset(ts)]

\* dt.timestamp()
timestamp(dt) == dt.wall - dt.off

\* (a - b).total_seconds() for two datetimes of the same tzinfo
dt_sub(a, b) == a.wall - b.wall

----------------------------------------------------------------------------
(* state.py *)

BotState ==
  [light_on |-> TRUE, last_change_timestamp |-> 0, last_image_commit_sha |-> "",
   last_schedule_fingerprint |-> "", last_light_message_id |-> None,
   last_light_duration |-> 0, schedule_data |-> None]

\* BotState.last_change
last_change(st, t) ==
  IF st.last_change_timestamp = 0 THEN datetime_now(t)
  ELSE fromtimestamp(st.last_change_timestamp)

\* BotState.set_last_change
set_last_change(st, dt) == [st EXCEPT !.last_change_timestamp = timestamp(dt)]

\* json.dumps(asdict(state)): the stored object has one member per field of
\* BotState; bool, float, int, str and None are written and read back as the
\* same values
json_dumps(st) == [k \in DOMAIN st |-> st[k]]

\* data.get(key, default) on the parsed object
data_get(obj, key, default) == IF key \in DOMAIN obj THEN obj[key] ELSE default

\* state.py:47-56, BotState built from the parsed record
state_from_record(obj) ==
  [light_on |-> data_get(obj, "light_on", TRUE),
   last_change_timestamp |-> data_get(obj, "last_change_timestamp", 0),
   last_image_commit_sha |-> data_get(obj, "last_image_commit_sha", ""),
   last_schedule_fingerprint |-> data_get(obj, "last_schedule_fingerprint", ""),
   last_light_message_id |-> data_get(obj, "last_light_message_id", None),
   last_light_duration |-> data_get(obj, "last_light_duration", 0),
   schedule_data |-> data_get(obj, "schedule_data", None)]

\* variant: the defaults keep the unset last_change_timestamp
default_state_unset(t) == BotState

\* state.py:58-65, the defaults with last_change set to now
default_state(t) == set_last_change(BotState, datetime_now(t))

\* StateManager.load_state; readOk = FALSE is a failed or unparsable read
load_state(record, readOk, t) ==
  IF readOk /\ record # None THEN state_from_record(record[1])
  ELSE default_state(t)

\* variant: the record is written also when the store write fails
save_always_written(w, ok) ==
  [w EXCEPT !.db = Some(json_dumps(w.state)),
            !.nsave = w.nsave + 1, !.lastsave = Some(ok)]

\* StateManager.save on the world w; ok = FALSE is a failed store write
save(w, ok) ==
  [w EXCEPT !.db = IF ok THEN Some(json_dumps(w.state)) ELSE w.db,
            !.nsave = w.nsave + 1, !.lastsave = Some(ok)]

\* StateManager.get_current_duration
get_current_duration(st, t) == dt_sub(datetime_now(t), last_change(st, t))

\* variant: the early return is missing
set_light_on_noop_never(st, is_on) == FALSE

\* the early return of set_light_on
set_light_on_noop(st, is_on) == st.light_on = is_on

\* the instant set_light_on records: custom_time if custom_time else now
set_light_on_now(custom_time, t) ==
  IF custom_time # None THEN custom_time[1] ELSE datetime_now(t)

\* history: the arguments and the outcome of a set_light_on call from w to r
with_call(w, r, is_on, custom_time, t) ==
  [r EXCEPT !.call = Some([is_on |-> is_on, custom_time |-> custom_time, at |-> t,
                           before |-> w.state, after |-> r.state, ret |-> r.ret,
                           nsave |-> r.nsave - w.nsave,
                           db_before |-> w.db, db_after |-> r.db])]

\* variant: the transition is not saved
set_light_on_apply_unsaved(w, is_on, now, t, ok) ==
  [w EXCEPT !.state = set_last_change([w.state EXCEPT !.light_on = is_on], now),
            !.ret = Some(dt_sub(now, last_change(w.state, t)))]

\* state.py:84-91, the effective branch of set_light_on at the instant now
set_light_on_apply(w, is_on, now, t, ok) ==
  save([w EXCEPT !.state = set_last_change([w.state EXCEPT !.light_on = is_on], now),
                 !.ret = Some(dt_sub(now, last_change(w.state, t)))], ok)

\* StateManager.set_light_on
set_light_on(w, is_on, custom_time, t, ok) ==
  with_call(w,
            IF set_light_on_noop(w.state, is_on)
            THEN [w EXCEPT !.ret = None]
            ELSE set_light_on_apply(w, is_on, set_light_on_now(custom_time, t), t, ok),
            is_on, custom_time, t)

\* StateManager.set_light_message
set_light_message(w, message_id, duration, ok) ==
  save([w EXCEPT !.state.last_light_message_id = Some(message_id),
                 !.state.last_light_duration = duration], ok)

\* StateManager.clear_light_message
clear_light_message(w, ok) ==
  save([w EXCEPT !.state.last_light_message_id = None,
                 !.state.last_light_duration = 0], ok)

(* database.py *)

\* log_event; ok = FALSE is a failed insert (caught and logged)
log_event(w, event_type, ok) ==
  IF ok THEN [w EXCEPT !.events = Append(@, event_type)] ELSE w

----------------------------------------------------------------------------
(* messages.py / schedule.py as seen from the handlers of main.py *)

\* parameters accepted by format_light_off_message
format_light_off_message_params == {"duration_seconds", "next_power_on", "off_time"}

\* parameters accepted by format_voltage_caption
format_voltage_caption_params ==
  {"light_on", "duration_seconds", "voltage", "stats", "next_event", "event_time"}

\* keyword arguments of the call at main.py:287
light_off_call_kwargs == {"off_time", "is_tomorrow"}

\* keyword arguments of the call at main.py:311
light_on_call_kwargs == {"event_time", "is_tomorrow"}

\* get_next_power_on returns one value (datetime or None), never a pair
get_next_power_on_returns_pair == FALSE

\* get_next_outage returns one value (OutagePeriod or None), never a pair
get_next_outage_returns_pair == FALSE

\* main.py:286-287 raises TypeError: unpacking a non-pair, or an unexpected keyword
handle_light_off_raises(sd) ==
  \/ sd # None /\ ~get_next_power_on_returns_pair
  \/ ~(light_off_call_kwargs \subseteq format_light_off_message_params)

\* main.py:306-313 raises TypeError: unpacking a non-pair, or an unexpected keyword
handle_light_on_raises(sd) ==
  \/ sd # None /\ ~get_next_outage_returns_pair
  \/ ~(light_on_call_kwargs \subseteq format_voltage_caption_params)

----------------------------------------------------------------------------
(* main.py: the transition handlers.  `cut` is the number of stages the     *)
(* handler completes before the process is killed; NoCut runs it to its end *)

\* value of `x or duration` for an optional float x
or_duration(ret, duration) ==
  IF ret = None \/ ret[1] = 0 THEN duration ELSE ret[1]

\* main.py:276
off_event_time(backdated_time, t) ==
  IF backdated_time # None THEN backdated_time[1] ELSE datetime_now(t)

\* main.py:279-281
off_stage1(w, cut, ok) ==
  IF cut < 1 THEN w
  ELSE [clear_light_message(w, ok) EXCEPT !.volt = FALSE, !.cur_msg = None]

\* variant: the handler does not call set_light_on
off_stage2_skipped(w, cut, event_time, t, ok) == w

\* main.py:283, set_light_on(False, custom_time=event_time)
off_stage2(w, cut, event_time, t, ok) ==
  IF cut < 2 THEN w ELSE set_light_on(w, FALSE, Some(event_time), t, ok)

\* main.py:283-284, real_duration and log_event("OFF")
off_stage3(w, cut, duration, logOk) ==
  IF cut < 3 THEN w
  ELSE log_event([w EXCEPT !.real = Some(or_duration(w.ret, duration))], "OFF", logOk)

\* main.py:286-290, the message is built and sent, unless building it raises
off_stage4(w, cut, sd, event_time, sendOk) ==
  IF cut < 4 THEN w
  ELSE IF handle_light_off_raises(sd) THEN [w EXCEPT !.raised = TRUE]
  ELSE IF ~sendOk THEN w
  ELSE [w EXCEPT !.sent = Append(@, [kind |-> "OFF", duration |-> w.real[1],
                                       event_time |-> event_time])]

\* main.py:292-295, the reference of the sent message is recorded and saved
off_stage5(w, cut, sd, sendOk, ok) ==
  IF cut < 5 \/ handle_light_off_raises(sd) \/ ~sendOk THEN w
  ELSE [save([w EXCEPT !.state.last_light_message_id = Some(Len(w.sent)),
                       !.state.last_light_duration = w.real[1]], ok)
          EXCEPT !.cur_msg = Some(Len(w.sent))]

\* SvitloBot._handle_light_off
handle_light_off(w, sd, duration, backdated_time, t, oks, logOk, sendOk, cut) ==
  off_stage5(
    off_stage4(
      off_stage3(
        off_stage2(off_stage1(w, cut, oks[1]),
                   cut, off_event_time(backdated_time, t), t, oks[2]),
        cut, duration, logOk),
      cut, sd, off_event_time(backdated_time, t), sendOk),
    cut, sd, sendOk, oks[3])

\* main.py:303, set_light_on(True)
on_stage1(w, cut, t, ok) ==
  IF cut < 1 THEN w ELSE set_light_on(w, TRUE, None, t, ok)

\* main.py:303-304, real_duration and log_event("ON")
on_stage2(w, cut, duration, logOk) ==
  IF cut < 2 THEN w
  ELSE log_event([w EXCEPT !.real = Some(or_duration(w.ret, duration))], "ON", logOk)

\* main.py:306-320 and 327-329, the caption is built and sent, unless building it raises
on_stage3(w, cut, sd, t, sendOk) ==
  IF cut < 3 THEN w
  ELSE IF handle_light_on_raises(sd) THEN [w EXCEPT !.raised = TRUE]
  ELSE IF ~sendOk THEN [w EXCEPT !.volt = TRUE]
  ELSE [w EXCEPT !.sent = Append(@, [kind |-> "ON", duration |-> w.real[1],
                                       event_time |-> datetime_now(t)])]

\* main.py:322-325
on_stage4(w, cut, sd, sendOk, ok) ==
  IF cut < 4 \/ handle_light_on_raises(sd) \/ ~sendOk THEN w
  ELSE [set_light_message(w, Len(w.sent), w.real[1], ok)
          EXCEPT !.cur_msg = Some(Len(w.sent)), !.volt = TRUE]

\* SvitloBot._handle_light_on
handle_light_on(w, sd, duration, t, oks, logOk, sendOk, cut) ==
  on_stage4(
    on_stage3(
      on_stage2(on_stage1(w, cut, t, oks[1]), cut, duration, logOk),
      cut, sd, t, sendOk),
    cut, sd, sendOk, oks[2])

----------------------------------------------------------------------------
(* network.py *)

\* NetworkMonitor.__init__
NetworkMonitor(initial_state) ==
  [current_state |-> initial_state, first_failure_time |-> None,
   pending_alert_logged |-> FALSE]

\* variant: a successful probe keeps the running failure window
first_failure_kept(mon) == mon.first_failure_time

\* network.py:55, what a successful probe leaves in first_failure_time
first_failure_after_success(mon) == None

\* network.py:63-64
first_failure_on_failure(mon, now) ==
  IF mon.first_failure_time = None THEN Some(now) ELSE mon.first_failure_time

\* network.py:69, the threshold test
threshold_reached(elapsed) == elapsed >= PING_TIMEOUT_THRESHOLD

\* variant: recovery only once the failure window is already cleared
restore_due_after_quiet(mon) == ~mon.current_state /\ mon.first_failure_time = None

\* network.py:58, the test for recovery
restore_due(mon) == ~mon.current_state

\* variant: the event reports the instant the threshold fired
backdated_start_now(fft, now) == Some(now)

\* network.py:74-76, the instant handed to on_light_off
backdated_start(fft, now) == fft

\* network.py:54-61, a successful probe
check_success(mon, w, sd, t, duration, oks, logOk, sendOk, cut) ==
  IF restore_due(mon)
  THEN [mon |-> [mon EXCEPT !.first_failure_time = first_failure_after_success(mon),
                            !.pending_alert_logged = FALSE,
                            !.current_state = TRUE],
        w |-> handle_light_on(w, sd, duration, t, oks, logOk, sendOk, cut),
        emitted |-> << [cb |-> "ON", duration |-> duration, backdated |-> None] >>]
  ELSE [mon |-> [mon EXCEPT !.first_failure_time = first_failure_after_success(mon),
                            !.pending_alert_logged = FALSE],
        w |-> w, emitted |-> << >>]

\* variant: the light-off event leaves current_state as it was
check_light_off_stays_lit(mon, w1, duration, bd) ==
  [mon |-> [mon EXCEPT !.pending_alert_logged = IF w1.raised THEN @ ELSE FALSE],
   w |-> w1,
   emitted |-> << [cb |-> "OFF", duration |-> duration, backdated |-> bd] >>]

\* network.py:73-77, the light-off event; line 77 is skipped when the callback raises
check_light_off(mon, w1, duration, bd) ==
  [mon |-> [mon EXCEPT !.current_state = FALSE,
                       !.pending_alert_logged = IF w1.raised THEN @ ELSE FALSE],
   w |-> w1,
   emitted |-> << [cb |-> "OFF", duration |-> duration, backdated |-> bd] >>]

\* variant: the light-off event waits for the pending alert to be logged
check_failure_when_pending(mon, w, sd, now, t, duration, oks, logOk, sendOk, cut) ==
  IF /\ threshold_reached(dt_sub(now, mon.first_failure_time[1]))
     /\ mon.current_state /\ mon.pending_alert_logged
  THEN check_light_off(mon,
                       handle_light_off(w, sd, duration,
                                        backdated_start(mon.first_failure_time, now),
                                        t, oks, logOk, sendOk, cut),
                       duration, backdated_start(mon.first_failure_time, now))
  ELSE IF mon.current_state /\ ~mon.pending_alert_logged
  THEN [mon |-> [mon EXCEPT !.pending_alert_logged = TRUE], w |-> w, emitted |-> << >>]
  ELSE [mon |-> mon, w |-> w, emitted |-> << >>]

\* network.py:67-82, a failed probe once first_failure_time is set (in mon)
check_failure(mon, w, sd, now, t, duration, oks, logOk, sendOk, cut) ==
  IF threshold_reached(dt_sub(now, mon.first_failure_time[1])) /\ mon.current_state
  THEN check_light_off(mon,
                       handle_light_off(w, sd, duration,
                                        backdated_start(mon.first_failure_time, now),
                                        t, oks, logOk, sendOk, cut),
                       duration, backdated_start(mon.first_failure_time, now))
  ELSE IF mon.current_state /\ ~mon.pending_alert_logged
  THEN [mon |-> [mon EXCEPT !.pending_alert_logged = TRUE], w |-> w, emitted |-> << >>]
  ELSE [mon |-> mon, w |-> w, emitted |-> << >>]

\* NetworkMonitor.check, with the callbacks of SvitloBot.start bound in
check(mon, w, sd, success, t, duration, oks, logOk, sendOk, cut) ==
  IF success
  THEN check_success(mon, w, sd, t, duration, oks, logOk, sendOk, cut)
  ELSE check_failure([mon EXCEPT !.first_failure_time =
                                    first_failure_on_failure(mon, datetime_now(t))],
                     w, sd, datetime_now(t), t, duration, oks, logOk, sendOk, cut)

----------------------------------------------------------------------------
(* The process *)

\* the stores and the in-memory objects a handler works on
World ==
  [state |-> state, db |-> db, events |-> power_events, sent |-> sent,
   cur_msg |-> cur_msg, volt |-> volt,
   ret |-> None, real |-> None, call |-> None, nsave |-> 0, raised |-> FALSE,
   lastsave |-> None]

\* value of the persisted lit flag (a missing record loads as lit)
persisted_lit(record) == IF record = None THEN TRUE ELSE record[1].light_on

NoHist ==
  [op |-> "none", success |-> FALSE, was_lit |-> FALSE, prev |-> "none",
   emitted |-> << >>, real |-> None, raised |-> FALSE, loaded |-> "none"]

\* history: the outcome of the last save of a step, or what was known before
next_last_save(lastsave) ==
  IF lastsave = None THEN last_save
  ELSE IF lastsave[1] THEN "saved" ELSE "failed"

NoDark == [how |-> "none", elapsed |-> 0, failed |-> FALSE]

prev_of(h) ==
  IF h.op = "check" THEN (IF h.success THEN "ok" ELSE "fail") ELSE "none"

track_flips(old, new) ==
  IF persisted_lit(new) # persisted_lit(old) THEN Append(flips, persisted_lit(new)) ELSE flips

\* the process is gone: nothing in memory survives
Down ==
  /\ running' = FALSE
  /\ state' = BotState
  /\ monitor' = NetworkMonitor(TRUE)
  /\ cur_msg' = None
  /\ volt' = FALSE
  /\ g_first_fail' = None
  /\ dark' = NoDark
  /\ last_call' = None
  /\ last_save' = "none"

Init ==
  /\ clock = StartTime
  /\ tzrule \in TzRules
  /\ running = FALSE
  /\ state = BotState
  /\ db = None
  /\ power_events = << >>
  /\ sent = << >>
  /\ monitor = NetworkMonitor(TRUE)
  /\ cur_msg = None
  /\ volt = FALSE
  /\ schedule_data = None
  /\ g_first_fail = None
  /\ hist = NoHist
  /\ dark = NoDark
  /\ last_call = None
  /\ flips = << >>
  /\ last_save = "none"
  /\ cached_data = None
  /\ schedule_table = << >>
  /\ schedule_sent = << >>
  /\ data = None
  /\ from_time = 0
  /\ result = None

\* SvitloBot.start
Start ==
  /\ ~running
  /\ \E step \in Steps, readOk \in BOOLEAN :
       LET t == clock + step
           st == load_state(db, readOk, t)
       IN  /\ t <= MaxTime
           /\ clock' = t
           /\ state' = st
           /\ monitor' = NetworkMonitor(st.light_on)
           /\ cur_msg' = IF st.light_on THEN st.last_light_message_id ELSE None
           /\ volt' = st.light_on
           /\ dark' = [how |-> IF st.light_on THEN "lit" ELSE "initial", elapsed |-> 0,
                       failed |-> FALSE]
           /\ hist' = [NoHist EXCEPT !.op = "start",
                                      !.loaded = IF readOk /\ db # None THEN "record"
                                                 ELSE "default"]
           /\ last_save' = IF readOk /\ db # None THEN "loaded" ELSE "none"
  /\ running' = TRUE
  /\ g_first_fail' = None
  /\ last_call' = None
  /\ UNCHANGED <<tzrule, db, power_events, sent, schedule_data, flips, sync_vars,
                 parser_vars>>

\* the tick with this probe result calls on_light_on or on_light_off
invokes(mon, success, now) ==
  IF success THEN restore_due(mon)
  ELSE /\ mon.current_state
       /\ threshold_reached(dt_sub(now, first_failure_on_failure(mon, now)[1]))

\* history: first failed probe since the last success or start
next_first_fail(success, t) ==
  IF success THEN None
  ELSE IF g_first_fail = None THEN Some(t) ELSE g_first_fail

\* history: how the detector came to its state
next_dark(cs, success, t, gff) ==
  IF monitor.current_state /\ ~cs
  THEN [how |-> "probe", elapsed |-> IF gff = None THEN 0 ELSE t - gff[1],
        failed |-> ~success]
  ELSE IF cs THEN [how |-> "lit", elapsed |-> 0, failed |-> FALSE]
  ELSE dark

\* the state a tick leaves: r is the outcome of check; died, the process was
\* killed inside the handler
Ticks(r, success, t, died) ==
  /\ db' = r.w.db
  /\ power_events' = r.w.events
  /\ sent' = r.w.sent
  /\ flips' = track_flips(db, r.w.db)
  /\ clock' = t
  /\ IF died
     THEN /\ Down
          /\ hist' = [NoHist EXCEPT !.op = "killed"]
     ELSE /\ running' = TRUE
          /\ state' = r.w.state
          /\ monitor' = r.mon
          /\ cur_msg' = r.w.cur_msg
          /\ volt' = r.w.volt
          /\ g_first_fail' = next_first_fail(success, t)
          /\ last_call' = r.w.call
          /\ last_save' = next_last_save(r.w.lastsave)
          /\ hist' = [op |-> "check", success |-> success,
                      was_lit |-> monitor.current_state,
                      prev |-> prev_of(hist), emitted |-> r.emitted,
                      real |-> r.w.real, raised |-> r.w.raised, loaded |-> "none"]
          /\ dark' = next_dark(r.mon.current_state, success, t, next_first_fail(success, t))

\* one iteration of SvitloBot._network_monitor_loop
Check ==
  /\ running
  /\ \E step \in Steps, success \in BOOLEAN :
       /\ clock + step <= MaxTime
       /\ hist.raised => step >= PING_INTERVAL + MONITOR_ERROR_SLEEP
       /\ IF invokes(monitor, success, datetime_now(clock + step))
          THEN \E pt \in PingTimes, oks \in [1..3 -> BOOLEAN], logOk \in BOOLEAN,
                  sendOk \in BOOLEAN, cut \in 0..NoCut :
                 Ticks(check(monitor, World, schedule_data, success, clock + step,
                             get_current_duration(state, clock + step - pt),
                             oks, logOk, sendOk, cut),
                       success, clock + step, cut < NoCut)
          ELSE Ticks(check(monitor, World, schedule_data, success, clock + step,
                           get_current_duration(state, clock + step),
                           [i \in 1..3 |-> TRUE], TRUE, TRUE, NoCut),
                     success, clock + step, FALSE)
  /\ UNCHANGED <<tzrule, schedule_data, sync_vars, parser_vars>>

\* SvitloBot.stop: the final save, then the process ends
Stop ==
  /\ running
  /\ \E ok \in BOOLEAN :
       LET w == save(World, ok)
       IN  /\ db' = w.db
           /\ flips' = track_flips(db, w.db)
  /\ Down
  /\ hist' = [NoHist EXCEPT !.op = "stop"]
  /\ UNCHANGED <<clock, tzrule, power_events, sent, schedule_data, sync_vars,
                 parser_vars>>

\* the process is killed between two ticks
Kill ==
  /\ running
  /\ Down
  /\ hist' = [NoHist EXCEPT !.op = "killed"]
  /\ UNCHANGED <<clock, tzrule, db, power_events, sent, schedule_data, flips,
                 sync_vars, parser_vars>>

Next == Start \/ Check \/ Stop \/ Kill

Spec == Init /\ [][Next]_vars

----------------------------------------------------------------------------
(* StateManager driven directly, as tests/test_state.py drives it: any      *)
(* record, any direction, any custom_time                                   *)

UInstants == {StartTime, StartTime + 2 * PING_INTERVAL, StartTime + 3 * PING_INTERVAL}

UStates ==
  {[BotState EXCEPT !.light_on = l, !.last_change_timestamp = ts,
                    !.last_light_message_id = m] :
     l \in BOOLEAN, ts \in {0} \cup UInstants, m \in {None, Some(1)}}

InitU ==
  /\ clock \in UInstants
  /\ tzrule \in TzRules
  /\ running = TRUE
  /\ state \in UStates
  /\ db \in {None, Some(state)}
  /\ power_events = << >>
  /\ sent = << >>
  /\ monitor = NetworkMonitor(state.light_on)
  /\ cur_msg = None
  /\ volt = FALSE
  /\ schedule_data = None
  /\ g_first_fail = None
  /\ hist = NoHist
  /\ dark = NoDark
  /\ last_call = None
  /\ flips = << >>
  /\ last_save = "none"
  /\ cached_data = None
  /\ schedule_table = << >>
  /\ schedule_sent = << >>
  /\ data = None
  /\ from_time = 0
  /\ result = None

\* one call of StateManager.set_light_on
CallSetLightOn ==
  /\ \E is_on \in BOOLEAN, ok \in BOOLEAN,
        custom_time \in {None} \cup {Some(datetime_now(x)) : x \in UInstants} :
       LET w == set_light_on(World, is_on, custom_time, clock, ok)
       IN  /\ state' = w.state
           /\ db' = w.db
           /\ last_call' = w.call
           /\ last_save' = next_last_save(w.lastsave)
  /\ hist' = [NoHist EXCEPT !.op = "call"]
  /\ UNCHANGED <<clock, tzrule, running, power_events, sent, monitor, cur_msg, volt,
                 schedule_data, g_first_fail, dark, flips, sync_vars, parser_vars>>

NextU == CallSetLightOn

SpecU == InitU /\ [][NextU]_vars

----------------------------------------------------------------------------
(* Schedule synchronisation: SvitloBot._fetch_schedule with                 *)
(* ScheduleParser.check_updates, polled every SCHEDULE_FETCH_INTERVAL        *)
(*                                                                          *)
(* A payload is the "fact"/"data" part of the published JSON.  days: for     *)
(* each day it has an entry for (0 = today, 1 = tomorrow), None when the     *)
(* entry lacks the group of SCHEDULE_GROUP, else Some(table) with the        *)
(* group's day table.  bad_key: its first key is not the decimal timestamp   *)
(* of a day, so int(ts_str) raises ValueError on it.                         *)

(* config.py *)
SCHEDULE_FETCH_INTERVAL == 120

(* Bounds of the model *)
MaxPolls == 2
Shas == {"sha1", "sha2"}
DayTables == {1}
Payloads ==
  [days : UNION {[D -> {None} \cup {Some(i) : i \in DayTables}] : D \in SUBSET {0, 1}},
   bad_key : BOOLEAN]

\* ScheduleParser.is_full_schedule: an entry for today and one for tomorrow;
\* a key that is no timestamp is skipped (schedule.py:149-150)
is_full_schedule(payload) == DOMAIN payload.days = {0, 1}

\* schedule.py:119-123, the entries of today and tomorrow that have the group
relevant(days) ==
  [d \in 0..1 |-> IF d \in DOMAIN days /\ days[d] # None THEN days[d][1] ELSE 0]

\* hashlib.md5(...).hexdigest() of the relevant entries, one digest per value
md5(rel) ==
  <<"d00", "d01", "d02", "d10", "d11", "d12", "d20", "d21", "d22">>[3 * rel[0] + rel[1] + 1]

\* ScheduleParser.get_schedule_fingerprint: any exception gives ""
get_schedule_fingerprint(payload) ==
  IF payload.bad_key THEN "" ELSE md5(relevant(payload.days))

\* ScheduleParser.get_day_data raises ValueError at schedule.py:160 when it
\* meets a key that is no timestamp, and format_full_caption with it
format_full_caption_raises(payload) == payload.bad_key

\* SvitloBot._filter_schedule_for_group
filter_schedule_for_group(payload) ==
  [payload EXCEPT !.days = [d \in {x \in DOMAIN payload.days : payload.days[x] # None}
                              |-> payload.days[d]]]

\* what the source answers to one poll: the ref request succeeds or not, the
\* commit sha of the branch, and the two downloads (json = None: the download
\* failed or the document is empty)
Responses ==
  [api_ok : BOOLEAN, sha : Shas, image_ok : BOOLEAN, json : {None} \cup {Some(x) : x \in Payloads}]

\* variant: the commit sha is not compared with last_sha
has_update_any_sha(resp, last_sha) ==
  /\ resp.api_ok
  /\ resp.image_ok
  /\ resp.json # None

\* schedule.py:72-92, check_updates has new files to return
has_update(resp, last_sha) ==
  /\ resp.api_ok
  /\ resp.sha # last_sha
  /\ resp.image_ok
  /\ resp.json # None

\* ScheduleParser.check_updates: the parser keeps the downloaded document
check_updates(w, resp, last_sha) ==
  IF has_update(resp, last_sha) THEN [w EXCEPT !.cached_data = resp.json] ELSE w

\* StateManager.update_commit_sha
update_commit_sha(w, sha, ok) ==
  save([w EXCEPT !.state.last_image_commit_sha = sha], ok)

\* StateManager.update_schedule_state
update_schedule_state(w, sha, fingerprint, ok) ==
  save([w EXCEPT !.state.last_image_commit_sha = sha,
                 !.state.last_schedule_fingerprint = fingerprint], ok)

\* database.save_schedule; ok = FALSE is a failed insert (caught and logged)
save_schedule(w, filtered, ok) ==
  IF ok THEN [w EXCEPT !.table = Append(@, filtered)] ELSE w

\* SvitloBot._send_schedule_update: send_photo is called; delivered = FALSE is
\* a TelegramAPIError (caught and logged)
send_schedule_update(w, payload, delivered) ==
  [w EXCEPT !.sent = Append(@, [fingerprint |-> get_schedule_fingerprint(payload),
                                delivered |-> delivered])]

\* main.py:223
fingerprint_unchanged(new_fingerprint, last_fingerprint) ==
  new_fingerprint = last_fingerprint

\* main.py:236-238, after update_schedule_state: the caption is formatted, the
\* payload stored and the notification sent, unless formatting raises (the
\* exception is caught at main.py:242)
publish_schedule(w, payload, storeOk, delivered) ==
  IF format_full_caption_raises(payload) THEN w
  ELSE send_schedule_update(save_schedule(w, filter_schedule_for_group(payload), storeOk),
                            payload, delivered)

\* main.py:216-238, a complete payload was fetched
apply_schedule(w, payload, new_sha, saveOk, storeOk, delivered) ==
  IF fingerprint_unchanged(get_schedule_fingerprint(payload),
                           w.state.last_schedule_fingerprint)
  THEN update_commit_sha([w EXCEPT !.schedule_data = Some(payload)], new_sha, saveOk)
  ELSE publish_schedule(
         update_schedule_state([w EXCEPT !.schedule_data = Some(payload)], new_sha,
                               get_schedule_fingerprint(payload), saveOk),
         payload, storeOk, delivered)

\* SvitloBot._fetch_schedule
fetch_schedule(w, resp, saveOk, storeOk, delivered) ==
  IF ~has_update(resp, w.state.last_image_commit_sha) THEN w
  ELSE IF ~is_full_schedule(resp.json[1])
  THEN check_updates(w, resp, w.state.last_image_commit_sha)
  ELSE apply_schedule(check_updates(w, resp, w.state.last_image_commit_sha),
                      resp.json[1], resp.sha, saveOk, storeOk, delivered)

\* the stores and the in-memory objects _fetch_schedule works on
SyncWorld ==
  [state |-> state, db |-> db, nsave |-> 0, lastsave |-> None,
   schedule_data |-> schedule_data, cached_data |-> cached_data,
   table |-> schedule_table, sent |-> schedule_sent]

\* the process after start() on an empty store, before the first poll
InitS ==
  /\ clock = StartTime
  /\ tzrule = "none"
  /\ running = TRUE
  /\ state = default_state(StartTime)
  /\ db = None
  /\ power_events = << >>
  /\ sent = << >>
  /\ monitor = NetworkMonitor(TRUE)
  /\ cur_msg = None
  /\ volt = TRUE
  /\ schedule_data = None
  /\ g_first_fail = None
  /\ hist = [op |-> "start", n |-> 0]
  /\ dark = NoDark
  /\ last_call = None
  /\ flips = << >>
  /\ last_save = "none"
  /\ cached_data = None
  /\ schedule_table = << >>
  /\ schedule_sent = << >>
  /\ data = None
  /\ from_time = 0
  /\ result = None

\* history: one poll, with what was there before it
fetch_hist(resp, w) ==
  [op |-> "fetch", n |-> hist.n + 1, resp |-> resp,
   new |-> has_update(resp, state.last_image_commit_sha),
   before |-> SyncWorld, nsave |-> w.nsave, lastsave |-> w.lastsave]

\* the state one poll leaves
Fetched(resp, w) ==
  /\ state' = w.state
  /\ db' = w.db
  /\ schedule_data' = w.schedule_data
  /\ cached_data' = w.cached_data
  /\ schedule_table' = w.table
  /\ schedule_sent' = w.sent
  /\ last_save' = next_last_save(w.lastsave)
  /\ hist' = fetch_hist(resp, w)

\* one iteration of SvitloBot._schedule_fetch_loop
FetchSchedule ==
  /\ running
  /\ hist.n < MaxPolls
  /\ \E resp \in Responses :
       IF has_update(resp, state.last_image_commit_sha) /\ is_full_schedule(resp.json[1])
       THEN \E saveOk \in BOOLEAN, storeOk \in BOOLEAN, delivered \in BOOLEAN :
              Fetched(resp, fetch_schedule(SyncWorld, resp, saveOk, storeOk, delivered))
       ELSE Fetched(resp, fetch_schedule(SyncWorld, resp, TRUE, TRUE, TRUE))
  /\ clock' = clock + SCHEDULE_FETCH_INTERVAL
  /\ UNCHANGED <<tzrule, running, power_events, sent, monitor, cur_msg, volt,
                 g_first_fail, dark, last_call, flips, parser_vars>>

NextS == FetchSchedule

SpecS == InitS /\ [][NextS]_vars

----------------------------------------------------------------------------
(* schedule.py: the ScheduleParser functions on the day tables.  Datetimes   *)
(* of one tzinfo are compared and shifted by their wall-clock fields, so an  *)
(* instant is the number of wall-clock minutes since 00:00 of today; a day   *)
(* is 0 (today) or 1 (tomorrow).  A day table maps hour labels to codes;     *)
(* `data` maps a day to None (no entry, or none for the group) or to         *)
(* Some(table).                                                              *)

\* variant: every code of BLACKOUT_VALUES counts as an outage
CONFIRMED_WITH_SPECULATIVE == {"no", "first", "second", "maybe", "mfirst", "msecond"}

\* schedule.py:29
CONFIRMED_BLACKOUT == {"no", "first", "second"}

\* the hour labels scanned, range(1, 25)
LastHour == 24
MinutesPerHour == 60
HalfHour == 30
MinutesPerDay == LastHour * MinutesPerHour

(* Bounds of the model *)
Codes == {"yes", "no", "first", "second", "maybe"}
CodedHours == {1, 8, 9, 10, 24}
Tables == [CodedHours -> Codes]
\* a day entry of the group with no hour in it
EmptyTable == << >>
\* the codes of BLACKOUT_VALUES (schedule.py:28) that confirm nothing
SpeculativeCodes == {"maybe", "mfirst", "msecond"}
\* day tables with mfirst or msecond between coded hours
MediumTables ==
  {f \in [CodedHours -> {"no", "first", "mfirst", "msecond"}] :
     f[9] \in {"mfirst", "msecond"} /\ f[1] = "no" /\ f[24] = "no"}
TomorrowTables ==
  {[h \in CodedHours |-> IF h = 1 THEN "second" ELSE "yes"],
   [h \in CodedHours |-> IF h = 9 THEN "no" ELSE "maybe"]}
FromTimes == {0, 30, 430, 450, 480, 570, 1410, 1439}

\* ScheduleParser.get_day_data
get_day_data(d, day) == IF day \in DOMAIN d THEN d[day] ELSE None

\* day_data.get(str(hour), "yes")
code_at(day_data, hour) == IF hour \in DOMAIN day_data THEN day_data[hour] ELSE "yes"

\* schedule.py:176, h_start of an hour label on the day that starts at base
h_start(base, hour) == base + (hour - 1) * MinutesPerHour

\* schedule.py:179-184, the sub-interval a confirmed code covers
sub_interval(val, hs) ==
  CASE val = "first" -> [start |-> hs, end |-> hs + HalfHour]
    [] val = "second" -> [start |-> hs + HalfHour, end |-> hs + MinutesPerHour]
    [] OTHER -> [start |-> hs, end |-> hs + MinutesPerHour]

\* variant: a sub-interval never continues the current run
continues_run_never(cur, p) == FALSE

\* schedule.py:188, cur_end == p_s
continues_run(cur, p) == cur.end = p.start

\* variant: a gap does not forget the current run
after_gap_kept(cur) == cur

\* schedule.py:196, after a gap there is no current run
after_gap(cur) == None

\* schedule.py:178-192, one confirmed hour; acc = [cur, outages]
confirmed_hour(acc, p) ==
  IF acc.cur = None THEN [acc EXCEPT !.cur = Some(p)]
  ELSE IF continues_run(acc.cur[1], p)
  THEN [acc EXCEPT !.cur = Some([start |-> acc.cur[1].start, end |-> p.end])]
  ELSE [cur |-> Some(p), outages |-> Append(acc.outages, acc.cur[1])]

\* schedule.py:193-196, one hour that is not confirmed
other_hour(acc) ==
  IF acc.cur # None
  THEN [cur |-> after_gap(acc.cur), outages |-> Append(acc.outages, acc.cur[1])]
  ELSE acc

\* schedule.py:174-196, the body of the loop for one hour label
scan_hour(acc, day_data, base, hour) ==
  IF code_at(day_data, hour) \in CONFIRMED_BLACKOUT
  THEN confirmed_hour(acc, sub_interval(code_at(day_data, hour), h_start(base, hour)))
  ELSE other_hour(acc)

RECURSIVE scan_hours(_, _, _, _)
\* schedule.py:174-200, the loop from hour on and the final append
scan_hours(acc, day_data, base, hour) ==
  IF hour > LastHour
  THEN (IF acc.cur # None THEN Append(acc.outages, acc.cur[1]) ELSE acc.outages)
  ELSE scan_hours(scan_hour(acc, day_data, base, hour), day_data, base, hour + 1)

\* ScheduleParser.get_outages_for_date
get_outages_for_date(d, day) ==
  IF get_day_data(d, day) = None \/ get_day_data(d, day)[1] = << >> THEN << >>
  ELSE scan_hours([cur |-> None, outages |-> << >>], get_day_data(d, day)[1],
                  day * MinutesPerDay, 1)

\* variant: an outage in progress is not skipped
in_progress_never(o, ft) == FALSE

\* schedule.py:207, the outage has already started
in_progress(o, ft) == o.start <= ft

RECURSIVE first_upcoming(_, _, _)
\* schedule.py:205-209, the loop over today's outages from index i on
first_upcoming(outages, i, ft) ==
  IF i > Len(outages) THEN None
  ELSE IF outages[i].end > ft /\ ~in_progress(outages[i], ft) THEN Some(outages[i])
  ELSE first_upcoming(outages, i + 1, ft)

\* schedule.py:211-213, the first outage of the day after from_time
first_tomorrow(outages) == IF outages # << >> THEN Some(outages[1]) ELSE None

\* ScheduleParser.get_next_outage: the value returned, an OutagePeriod or None
get_next_outage(d, ft) ==
  IF first_upcoming(get_outages_for_date(d, 0), 1, ft) # None
  THEN first_upcoming(get_outages_for_date(d, 0), 1, ft)
  ELSE first_tomorrow(get_outages_for_date(d, 1))

RECURSIVE first_ending_after(_, _, _)
\* schedule.py:217-218, the loop over today's outages from index i on
first_ending_after(outages, i, ft) ==
  IF i > Len(outages) THEN None
  ELSE IF outages[i].end > ft THEN Some(outages[i].end)
  ELSE first_ending_after(outages, i + 1, ft)

\* schedule.py:219-220, the end of the first outage of the day after from_time
first_end_tomorrow(outages) == IF outages # << >> THEN Some(outages[1].end) ELSE None

\* ScheduleParser.get_next_power_on: the value returned, a datetime or None
get_next_power_on(d, ft) ==
  IF first_ending_after(get_outages_for_date(d, 0), 1, ft) # None
  THEN first_ending_after(get_outages_for_date(d, 0), 1, ft)
  ELSE first_end_tomorrow(get_outages_for_date(d, 1))

\* the parser is given any payload and any from_time of today
InitP ==
  /\ clock = StartTime
  /\ tzrule = "none"
  /\ running = FALSE
  /\ state = BotState
  /\ db = None
  /\ power_events = << >>
  /\ sent = << >>
  /\ monitor = NetworkMonitor(TRUE)
  /\ cur_msg = None
  /\ volt = FALSE
  /\ schedule_data = None
  /\ g_first_fail = None
  /\ hist = NoHist
  /\ dark = NoDark
  /\ last_call = None
  /\ flips = << >>
  /\ last_save = "none"
  /\ cached_data = None
  /\ schedule_table = << >>
  /\ schedule_sent = << >>
  /\ \E today \in {None} \cup {Some(x) : x \in Tables \cup MediumTables \cup {EmptyTable}},
        tomorrow \in {None} \cup {Some(x) : x \in TomorrowTables} :
       data = (0 :> today @@ 1 :> tomorrow)
  /\ from_time \in FromTimes
  /\ result = [op |-> "none"]

\* one call of get_outages_for_date
CallGetOutages ==
  /\ \E day \in DOMAIN data :
       result' = [op |-> "get_outages_for_date", day |-> day,
                  ret |-> get_outages_for_date(data, day)]
  /\ UNCHANGED <<clock, tzrule, running, state, db, power_events, sent, monitor,
                 cur_msg, volt, schedule_data, g_first_fail, hist, dark, last_call,
                 flips, last_save, sync_vars, data, from_time>>

\* one call of get_next_outage
CallGetNextOutage ==
  /\ result' = [op |-> "get_next_outage", ret |-> get_next_outage(data, from_time),
                pair |-> get_next_outage_returns_pair]
  /\ UNCHANGED <<clock, tzrule, running, state, db, power_events, sent, monitor,
                 cur_msg, volt, schedule_data, g_first_fail, hist, dark, last_call,
                 flips, last_save, sync_vars, data, from_time>>

\* one call of get_next_power_on
CallGetNextPowerOn ==
  /\ result' = [op |-> "get_next_power_on", ret |-> get_next_power_on(data, from_time),
                pair |-> get_next_power_on_returns_pair]
  /\ UNCHANGED <<clock, tzrule, running, state, db, power_events, sent, monitor,
                 cur_msg, volt, schedule_data, g_first_fail, hist, dark, last_call,
                 flips, last_save, sync_vars, data, from_time>>

NextP == CallGetOutages \/ CallGetNextOutage \/ CallGetNextPowerOn

SpecP == InitP /\ [][NextP]_vars

(***************************************************************************)
(* schedule.py: get_schedule_fingerprint and is_full_schedule on documents *)
(* as the source serves them.  A document is data["fact"]["data"]: for     *)
(* each timestamp key the entry of the monitored group and of one other    *)
(* group (0: the group is absent, else the table it holds); a key that is  *)
(* absent maps to None.  NoDocument is a payload without "fact".           *)
(***************************************************************************)

\* the keys of fact.data: midnight of today, of tomorrow and of yesterday, a
\* key that is no number, and a number no platform time_t holds
KeyTexts == {"ts_today", "ts_tomorrow", "ts_yesterday", "abc", "99999999999999999999"}

\* datetime.fromtimestamp(int(ts_str), tz).date(): the day relative to today,
\* or the exception raised
fromtimestamp_date(ts_str) ==
  CASE ts_str = "ts_today" -> [raises |-> "none", date |-> 0]
    [] ts_str = "ts_tomorrow" -> [raises |-> "none", date |-> 1]
    [] ts_str = "ts_yesterday" -> [raises |-> "none", date |-> -1]
    [] ts_str = "abc" -> [raises |-> "ValueError", date |-> 0]
    [] OTHER -> [raises |-> "OverflowError", date |-> 0]

\* the entries a key can hold in the model
GroupEntries(ts_str) ==
  CASE ts_str = "ts_today" ->
         {None, Some([group |-> 1, other |-> 0]), Some([group |-> 2, other |-> 0]),
          Some([group |-> 0, other |-> 1]), Some([group |-> 1, other |-> 1])}
    [] ts_str = "ts_tomorrow" ->
         {None, Some([group |-> 1, other |-> 0]), Some([group |-> 0, other |-> 1])}
    [] ts_str = "abc" ->
         {None, Some([group |-> 1, other |-> 0]), Some([group |-> 0, other |-> 1])}
    [] OTHER -> {None, Some([group |-> 1, other |-> 0])}

NoDocument == [fact |-> FALSE, entries |-> [k \in KeyTexts |-> None]]

Documents ==
  {NoDocument} \cup
  {[fact |-> TRUE, entries |-> e] :
     e \in {f \in [KeyTexts -> UNION {GroupEntries(k) : k \in KeyTexts}] :
              \A k \in KeyTexts : f[k] \in GroupEntries(k)}}

\* fact_data.keys()
fact_keys(doc) == {k \in KeyTexts : doc.entries[k] # None}

\* schedule.py:121-123, the entry a key contributes to `relevant`: the
\* group's table when the key is of today or tomorrow and has the group
relevant_entry(doc, ts_str) ==
  IF /\ fromtimestamp_date(ts_str).date \in {0, 1}
     /\ doc.entries[ts_str][1].group # 0
  THEN doc.entries[ts_str][1].group ELSE 0

\* schedule.py:119-123, the dict `relevant`, by day
relevant_of(doc) ==
  [d \in 0..1 |->
     IF \E k \in fact_keys(doc) : fromtimestamp_date(k).date = d /\ relevant_entry(doc, k) # 0
     THEN relevant_entry(doc, CHOOSE k \in fact_keys(doc) :
                                fromtimestamp_date(k).date = d /\ relevant_entry(doc, k) # 0)
     ELSE 0]

\* schedule.py:113-128: any exception while the keys are read gives ""
schedule_fingerprint(doc) ==
  IF ~doc.fact THEN ""
  ELSE IF \E k \in fact_keys(doc) : fromtimestamp_date(k).raises # "none" THEN ""
  ELSE md5(relevant_of(doc))

\* schedule.py:149-150, the exceptions the loop of is_full_schedule skips
skipped_by_is_full == {"ValueError", "TypeError"}

\* schedule.py:131-152: the value returned, or the exception that leaves the
\* function
full_schedule(doc) ==
  IF ~doc.fact THEN [raises |-> "none", ret |-> FALSE]
  ELSE IF \E k \in fact_keys(doc) :
            fromtimestamp_date(k).raises \notin skipped_by_is_full \cup {"none"}
  THEN [raises |-> (CHOOSE e \in {fromtimestamp_date(k).raises : k \in fact_keys(doc)} :
                      e \notin skipped_by_is_full \cup {"none"}),
        ret |-> FALSE]
  ELSE [raises |-> "none",
        ret |-> /\ \E k \in fact_keys(doc) :
                     fromtimestamp_date(k).raises = "none" /\ fromtimestamp_date(k).date = 0
                /\ \E k \in fact_keys(doc) :
                     fromtimestamp_date(k).raises = "none" /\ fromtimestamp_date(k).date = 1]

\* the parser is given any two documents
InitF ==
  /\ clock = StartTime
  /\ tzrule = "none"
  /\ running = FALSE
  /\ state = BotState
  /\ db = None
  /\ power_events = << >>
  /\ sent = << >>
  /\ monitor = NetworkMonitor(TRUE)
  /\ cur_msg = None
  /\ volt = FALSE
  /\ schedule_data = None
  /\ g_first_fail = None
  /\ hist = NoHist
  /\ dark = NoDark
  /\ last_call = None
  /\ flips = << >>
  /\ last_save = "none"
  /\ cached_data = None
  /\ schedule_table = << >>
  /\ schedule_sent = << >>
  /\ data \in Documents \X Documents
  /\ from_time = 0
  /\ result = [op |-> "none"]

\* get_schedule_fingerprint of each of the two documents
CallGetScheduleFingerprint ==
  /\ result' = [op |-> "get_schedule_fingerprint",
                ret |-> <<schedule_fingerprint(data[1]), schedule_fingerprint(data[2])>>]
  /\ UNCHANGED <<clock, tzrule, running, state, db, power_events, sent, monitor,
                 cur_msg, volt, schedule_data, g_first_fail, hist, dark, last_call,
                 flips, last_save, sync_vars, data, from_time>>

\* is_full_schedule of the first document
CallIsFullSchedule ==
  /\ result' = [op |-> "is_full_schedule", out |-> full_schedule(data[1])]
  /\ UNCHANGED <<clock, tzrule, running, state, db, power_events, sent, monitor,
                 cur_msg, volt, schedule_data, g_first_fail, hist, dark, last_call,
                 flips, last_save, sync_vars, data, from_time>>

\* main.py:331-346, _filter_schedule_for_group: a payload without "fact" is
\* returned as it is; else each key that has the group keeps the group's
\* entry alone, and a key without the group is dropped
filter_document_for_group(doc) ==
  IF ~doc.fact THEN doc
  ELSE [fact |-> TRUE,
        entries |-> [k \in KeyTexts |->
                       IF doc.entries[k] # None /\ doc.entries[k][1].group # 0
                       THEN Some([group |-> doc.entries[k][1].group, other |-> 0])
                       ELSE None]]

\* the first document is filtered as main.py:225 does before it is stored,
\* and the fingerprint of the stored payload is taken
CallFilterScheduleForGroup ==
  /\ result' = [op |-> "filter_schedule_for_group",
                ret |-> filter_document_for_group(data[1]),
                fingerprint |-> schedule_fingerprint(filter_document_for_group(data[1])),
                original |-> schedule_fingerprint(data[1])]
  /\ UNCHANGED <<clock, tzrule, running, state, db, power_events, sent, monitor,
                 cur_msg, volt, schedule_data, g_first_fail, hist, dark, last_call,
                 flips, last_save, sync_vars, data, from_time>>

NextF == CallGetScheduleFingerprint \/ CallIsFullSchedule \/ CallFilterScheduleForGroup

SpecF == InitF /\ [][NextF]_vars

----------------------------------------------------------------------------
(* network.py: the detector alone, as tests/test_network.py drives it: any *)
(* initial state, any sequence of probe outcomes and instants.  `monitor`  *)
(* is the detector, `data` a second detector that differs from it only in  *)
(* _pending_alert_logged and is fed the same probes.                       *)

\* what asyncio.open_connection does within PING_TIMEOUT
ConnectOutcomes == {"connected", "refused", "timed_out", "unreachable"}

\* what writer.wait_closed() meets: the peer may have reset the connection
CloseOutcomes == {"closed", "reset"}

\* network.py:42-45, the exception raised inside the try block
ping_exception(conn, close) ==
  CASE conn = "refused" -> "ConnectionRefusedError"
    [] conn = "timed_out" -> "TimeoutError"
    [] conn = "unreachable" -> "OSError"
    [] conn = "connected" /\ close = "reset" -> "ConnectionResetError"
    [] OTHER -> "none"

\* network.py:47, the exceptions ping answers with False (OSError and its
\* subclasses, asyncio.TimeoutError, TimeoutError)
ping_caught == {"OSError", "ConnectionRefusedError", "ConnectionResetError", "TimeoutError"}

\* NetworkMonitor.ping
ping(conn, close) ==
  IF ping_exception(conn, close) = "none" THEN [ret |-> TRUE, raises |-> "none"]
  ELSE IF ping_exception(conn, close) \in ping_caught
  THEN [ret |-> FALSE, raises |-> "none"]
  ELSE [ret |-> FALSE, raises |-> ping_exception(conn, close)]

\* the detector in any state a run can leave it in, and its twin
InitD ==
  /\ clock = StartTime
  /\ tzrule = "none"
  /\ running = TRUE
  /\ state = default_state(StartTime)
  /\ db = None
  /\ power_events = << >>
  /\ sent = << >>
  /\ \E cs \in BOOLEAN, pending \in BOOLEAN,
        fft \in {None, Some(datetime_now(StartTime))} :
       /\ monitor = [current_state |-> cs, first_failure_time |-> fft,
                     pending_alert_logged |-> pending]
       /\ data = [current_state |-> cs, first_failure_time |-> fft,
                  pending_alert_logged |-> ~pending]
       /\ hist = [op |-> "init", initial |-> cs, events |-> << >>]
  /\ cur_msg = None
  /\ volt = FALSE
  /\ schedule_data = None
  /\ g_first_fail = None
  /\ dark = NoDark
  /\ last_call = None
  /\ flips = << >>
  /\ last_save = "none"
  /\ cached_data = None
  /\ schedule_table = << >>
  /\ schedule_sent = << >>
  /\ from_time = 0
  /\ result = [op |-> "none"]

\* the names of the callbacks a tick invoked
callbacks(emitted) == [i \in DOMAIN emitted |-> emitted[i].cb]

\* one detector tick on mon: NetworkMonitor.check with the probe's answer
detector_tick(mon, success, t) ==
  check(mon, World, schedule_data, success, t, get_current_duration(state, t),
        [i \in 1..3 |-> TRUE], TRUE, TRUE, NoCut)

\* network.py:50-82, one tick of both detectors
DetectorCheck ==
  /\ \E step \in Steps, conn \in ConnectOutcomes, close \in CloseOutcomes :
       /\ clock + step <= MaxTime
       /\ clock' = clock + step
       /\ monitor' = detector_tick(monitor, ping(conn, close).ret, clock + step).mon
       /\ data' = detector_tick(data, ping(conn, close).ret, clock + step).mon
       /\ result' = [op |-> "probe", conn |-> conn, close |-> close,
                     ping |-> ping(conn, close), attempts |-> 1,
                     was |-> monitor,
                     emitted |-> detector_tick(monitor, ping(conn, close).ret,
                                               clock + step).emitted,
                     emitted_twin |-> detector_tick(data, ping(conn, close).ret,
                                                    clock + step).emitted]
       /\ hist' = [hist EXCEPT !.op = "check",
                     !.events = @ \o callbacks(detector_tick(monitor, ping(conn, close).ret,
                                                             clock + step).emitted)]
  /\ UNCHANGED <<tzrule, running, state, db, power_events, sent, cur_msg, volt,
                 schedule_data, g_first_fail, dark, last_call, flips, last_save,
                 sync_vars, from_time>>

NextD == DetectorCheck

SpecD == InitD /\ [][NextD]_vars

----------------------------------------------------------------------------
(* main.py: the status message and the three tasks that touch it.  A step   *)
(* is the code a task runs between two awaits.  data holds where each task  *)
(* is suspended and the message reference it has read:                      *)
(*   probe    idle, off_cleared, off_set, off_sent, off_saved (inside       *)
(*            _handle_light_off), on_set, on_sent, on_saved (inside         *)
(*            _handle_light_on)                                             *)
(*   sched    idle, called (awaiting get_voltage_now), logged, charted      *)
(*            (inside _on_voltage_measured)                                 *)
(*   voltage  stopped, sleep, called (awaiting the reading), logged,        *)
(*            charted                                                       *)
(* sent is the list of status messages, a reference is an index into it;    *)
(* result is the last edit.  data.formats says which format functions are   *)
(* installed: those of src/messages.py, or those tests/test_messages.py     *)
(* calls, which take is_tomorrow.                                           *)

(* Bounds of the model *)
MaxMessages == 3

\* main.py:173, 270, 287, 311: the call of the format function raises TypeError
formatter_raises(formats) ==
  /\ formats = "messages.py"
  /\ handle_light_on_raises(None)
  /\ handle_light_off_raises(None)

\* the objects the three tasks share
EWorld ==
  [state |-> state, sent |-> sent, cur_msg |-> cur_msg, volt |-> volt,
   data |-> data, result |-> result]

\* the state a step leaves
Becomes(w) ==
  /\ state' = w.state
  /\ sent' = w.sent
  /\ cur_msg' = w.cur_msg
  /\ volt' = w.volt
  /\ data' = w.data
  /\ result' = w.result
  /\ UNCHANGED <<clock, tzrule, running, db, power_events, monitor, schedule_data,
                 g_first_fail, hist, dark, last_call, flips, last_save, sync_vars,
                 from_time>>

\* main.py:150 and 258, self._current_message_id or state.last_light_message_id
current_message_ref(w) ==
  IF w.cur_msg # None THEN w.cur_msg ELSE w.state.last_light_message_id

\* SvitloBot._on_voltage_measured run by task, one step: the reference is read
\* and log_voltage awaited (150-153); the guard is tested, the statistics and
\* the chart awaited (155-170); the caption for the lit state is built and the
\* message edited (172-197)
on_voltage_measured(w, task, done) ==
  CASE w.data[task].pc = "called" ->
         IF w.state.light_on
         THEN [w EXCEPT !.data[task] = [pc |-> "logged", msg |-> current_message_ref(w)]]
         ELSE [w EXCEPT !.data[task] = [pc |-> done, msg |-> None]]
    [] w.data[task].pc = "logged" ->
         IF running /\ w.state.light_on /\ w.data[task].msg # None
         THEN [w EXCEPT !.data[task].pc = "charted"]
         ELSE [w EXCEPT !.data[task] = [pc |-> done, msg |-> None]]
    [] OTHER ->
         IF formatter_raises(w.data.formats)
         THEN [w EXCEPT !.data[task] = [pc |-> done, msg |-> None],
                        !.result = [op |-> "raised", by |-> task]]
         ELSE [w EXCEPT !.data[task] = [pc |-> done, msg |-> None],
                        !.result = [op |-> "edit", message_id |-> w.data[task].msg[1],
                                    caption |-> "lit", lit |-> w.state.light_on,
                                    by |-> task]]

\* the process after start(): a status message of the loaded state exists
InitE ==
  /\ clock = StartTime
  /\ tzrule = "none"
  /\ running = TRUE
  /\ db = None
  /\ power_events = << >>
  /\ monitor = NetworkMonitor(TRUE)
  /\ schedule_data = None
  /\ g_first_fail = None
  /\ hist = NoHist
  /\ dark = NoDark
  /\ last_call = None
  /\ flips = << >>
  /\ last_save = "none"
  /\ cached_data = None
  /\ schedule_table = << >>
  /\ schedule_sent = << >>
  /\ from_time = 0
  /\ \E lit \in BOOLEAN, formats \in {"messages.py", "tests"} :
       /\ state = [default_state(StartTime) EXCEPT !.light_on = lit,
                                                   !.last_light_message_id = Some(1)]
       /\ sent = << [kind |-> IF lit THEN "ON" ELSE "OFF"] >>
       /\ cur_msg = IF lit THEN Some(1) ELSE None
       /\ volt = lit
       /\ data = [formats |-> formats, probe |-> "idle",
                  sched |-> [pc |-> "idle", msg |-> None],
                  voltage |-> [pc |-> IF lit THEN "sleep" ELSE "stopped", msg |-> None]]
  /\ result = [op |-> "none"]

\* the probe task inside _handle_light_off (main.py:275-297) or
\* _handle_light_on (main.py:299-329), from one await to the next
HandlerStep ==
  /\ data.probe = "idle" => Len(sent) < MaxMessages
  /\ Becomes(
       CASE data.probe = "idle" /\ state.light_on ->
              [EWorld EXCEPT !.state.last_light_message_id = None,
                             !.state.last_light_duration = 0,
                             !.data.probe = "off_cleared"]
         [] data.probe = "idle" /\ ~state.light_on ->
              [EWorld EXCEPT !.state.light_on = TRUE, !.data.probe = "on_set"]
         [] data.probe = "off_cleared" ->
              [EWorld EXCEPT !.volt = FALSE,
                             !.data.voltage = [pc |-> "stopped", msg |-> None],
                             !.cur_msg = None,
                             !.state.light_on = FALSE,
                             !.data.probe = "off_set"]
         [] data.probe = "off_set" ->
              IF formatter_raises(data.formats) THEN [EWorld EXCEPT !.data.probe = "idle"]
              ELSE [EWorld EXCEPT !.sent = Append(@, [kind |-> "OFF"]),
                                  !.data.probe = "off_sent"]
         [] data.probe = "off_sent" ->
              [EWorld EXCEPT !.state.last_light_message_id = Some(Len(sent)),
                             !.data.probe = "off_saved"]
         [] data.probe = "off_saved" ->
              [EWorld EXCEPT !.cur_msg = Some(Len(sent)), !.data.probe = "idle"]
         [] data.probe = "on_set" ->
              IF formatter_raises(data.formats) THEN [EWorld EXCEPT !.data.probe = "idle"]
              ELSE [EWorld EXCEPT !.sent = Append(@, [kind |-> "ON"]),
                                  !.data.probe = "on_sent"]
         [] data.probe = "on_sent" ->
              [EWorld EXCEPT !.state.last_light_message_id = Some(Len(sent)),
                             !.data.probe = "on_saved"]
         [] OTHER ->
              [EWorld EXCEPT !.cur_msg = Some(Len(sent)),
                             !.volt = TRUE,
                             !.data.voltage = IF volt THEN @
                                              ELSE [pc |-> "sleep", msg |-> None],
                             !.data.probe = "idle"])

\* the schedule task inside _update_light_message_schedule (main.py:257-273),
\* called by _fetch_schedule at main.py:231 and 253
UpdateStep ==
  /\ data.sched.pc = "idle" => current_message_ref(EWorld) # None
  /\ Becomes(
       IF data.sched.pc # "idle" THEN on_voltage_measured(EWorld, "sched", "idle")
       ELSE IF state.light_on THEN [EWorld EXCEPT !.data.sched.pc = "called"]
       ELSE IF formatter_raises(data.formats)
       THEN [EWorld EXCEPT !.result = [op |-> "raised", by |-> "sched"]]
       ELSE [EWorld EXCEPT !.result = [op |-> "edit",
                                       message_id |-> current_message_ref(EWorld)[1],
                                       caption |-> "dark", lit |-> state.light_on,
                                       by |-> "sched"]])

\* the task of VoltageMonitor._monitor_loop (voltage.py:105-127) with the
\* callback of main.py:64
VoltageStep ==
  /\ data.voltage.pc # "stopped"
  /\ Becomes(
       IF data.voltage.pc = "sleep" THEN [EWorld EXCEPT !.data.voltage.pc = "called"]
       ELSE on_voltage_measured(EWorld, "voltage", "sleep"))

NextE == HandlerStep \/ UpdateStep \/ VoltageStep

SpecE == InitE /\ [][NextE]_vars

----------------------------------------------------------------------------
(* main.py: the coroutines of the process on the asyncio event loop.  A    *)
(* step is the code a task runs between two awaits.  hist holds where each *)
(* task is suspended:                                                      *)
(*   start  init_db, load_state, fetch (the awaits of start() before the   *)
(*          loops exist), gather, returned                                 *)
(*   main   wait (stop_event.wait()), stopping (inside stop()),            *)
(*          await_task, exited                                             *)
(*   probe  none (not created), sleep, check, saving (inside the save of   *)
(*          set_light_on), backoff, done                                   *)
(*   sched  none, sleep, fetch, saving (inside update_commit_sha), done    *)
(* writes is the queue of statements handed to the database connection,    *)
(* which runs them one after the other.                                    *)

\* the task has been created and has not finished
alive(pc) == pc \notin {"none", "done"}

\* the task has handed a write to the connection that is not yet executed
write_pending(h, task) == \E i \in DOMAIN h.writes : h.writes[i].by = task

\* variant: an exception in a tick leaves the loop
loop_survives_never(err) == ~err

\* main.py:136 and main.py:144, `except Exception` inside the while loop
loop_survives(err) == TRUE

\* StateManager.save from a task: the snapshot is taken (state.py:69) and the
\* write is handed to the connection; with the connection closed set_state
\* fails at once (database.py:80)
enqueue_save(h, task, st) ==
  IF h.db_open THEN Append(h.writes, [by |-> task, record |-> json_dumps(st)])
  ELSE h.writes

\* before main() creates the start() task
InitA ==
  /\ clock = StartTime
  /\ tzrule = "none"
  /\ running = FALSE
  /\ state = BotState
  /\ db \in {None, Some([default_state(StartTime) EXCEPT !.light_on = FALSE])}
  /\ power_events = << >>
  /\ sent = << >>
  /\ monitor = NetworkMonitor(TRUE)
  /\ cur_msg = None
  /\ volt = FALSE
  /\ schedule_data = None
  /\ g_first_fail = None
  /\ hist = [op |-> "init", start |-> "init_db", main |-> "wait",
             probe |-> "none", sched |-> "none",
             probe_cancel |-> FALSE, sched_cancel |-> FALSE,
             writes |-> << >>, db_open |-> FALSE,
             probe_n |-> 0, sched_n |-> 0, overlap |-> FALSE]
  /\ dark = NoDark
  /\ last_call = None
  /\ flips = << >>
  /\ last_save = "none"
  /\ cached_data = None
  /\ schedule_table = << >>
  /\ schedule_sent = << >>
  /\ data = None
  /\ from_time = 0
  /\ result = [op |-> "none"]

\* what no task of this section assigns
task_frame ==
  <<clock, tzrule, power_events, sent, monitor, cur_msg, volt, schedule_data,
    g_first_fail, dark, last_call, flips, last_save, sync_vars, data, from_time>>

\* main.py:71, init_db() returns: the connection is open
StartInitDb ==
  /\ hist.start = "init_db"
  /\ hist' = [hist EXCEPT !.op = "init_db", !.start = "load_state", !.db_open = TRUE]
  /\ UNCHANGED <<running, state, db, result, task_frame>>

\* main.py:72, load_state() returns
StartLoadState ==
  /\ hist.start = "load_state"
  /\ state' = load_state(db, hist.db_open, clock)
  /\ hist' = [hist EXCEPT !.op = "load_state", !.start = "fetch"]
  /\ UNCHANGED <<running, db, result, task_frame>>

\* main.py:74-108, the last await of the initialisation returns: _running is
\* set and the two loops are created
StartSpawn ==
  /\ hist.start = "fetch"
  /\ running' = TRUE
  /\ hist' = [hist EXCEPT !.op = "spawn", !.start = "gather",
                          !.probe = "sleep", !.sched = "sleep"]
  /\ UNCHANGED <<state, db, result, task_frame>>

\* main.py:110-113, gather returns when the loops have ended
StartReturn ==
  /\ hist.start = "gather"
  /\ hist.probe = "done" /\ hist.sched = "done"
  /\ hist' = [hist EXCEPT !.op = "start_return", !.start = "returned"]
  /\ UNCHANGED <<running, state, db, result, task_frame>>

\* main.py:356-357 and 115-121: the signal sets stop_event, main() calls
\* stop(), which clears _running and cancels the tasks of self._tasks
Signal ==
  /\ hist.main = "wait"
  /\ running' = FALSE
  /\ hist' = [hist EXCEPT !.op = "signal", !.main = "stopping",
                          !.probe_cancel = alive(hist.probe),
                          !.sched_cancel = alive(hist.sched)]
  /\ UNCHANGED <<state, db, result, task_frame>>

\* main.py:122-129: the cancelled tasks have ended; the sessions are closed,
\* the state is saved after the writes still queued, the connection is closed
StopClose ==
  /\ hist.main = "stopping"
  /\ hist.probe_cancel => hist.probe = "done"
  /\ hist.sched_cancel => hist.sched = "done"
  /\ db' = IF hist.db_open THEN Some(json_dumps(state)) ELSE db
  /\ hist' = [hist EXCEPT !.op = "stop", !.main = "await_task",
                          !.writes = << >>, !.db_open = FALSE]
  /\ UNCHANGED <<running, state, result, task_frame>>

\* main.py:358-359, `await task` returns
MainExit ==
  /\ hist.main = "await_task"
  /\ hist.start = "returned"
  /\ hist' = [hist EXCEPT !.op = "exit", !.main = "exited"]
  /\ UNCHANGED <<running, state, db, result, task_frame>>

\* main.py:132 and 139: the sleep ends (or the task runs for the first time)
\* and the loop condition is evaluated
ProbeTop ==
  /\ hist.probe = "sleep"
  /\ hist' = IF hist.probe_cancel \/ ~running
             THEN [hist EXCEPT !.op = "probe_end", !.probe = "done"]
             ELSE [hist EXCEPT !.op = "probe_tick", !.probe = "check",
                               !.probe_n = 1 - hist.probe_n]
  /\ UNCHANGED <<running, state, db, result, task_frame>>

\* history: how the tick of a loop ended
tick_op(task, err) ==
  IF task = "probe" THEN (IF err THEN "probe_error" ELSE "probe_ok")
  ELSE (IF err THEN "sched_error" ELSE "sched_ok")

\* the commit sha of the branch when the schedule loop asks
NewSha == "sha1"

\* the pc of a loop after a tick that raised (err) or not
after_tick(err, on_error) ==
  IF ~err THEN "sleep" ELSE IF loop_survives(err) THEN on_error ELSE "done"

\* main.py:133-137 with state.py:78-89: check() finds no transition, raises,
\* or calls set_light_on, which assigns the state and awaits the save
ProbeCheck ==
  /\ hist.probe = "check"
  /\ IF hist.probe_cancel
     THEN /\ hist' = [hist EXCEPT !.op = "probe_end", !.probe = "done"]
          /\ state' = state
     ELSE \/ \E err \in BOOLEAN :
               /\ hist' = [hist EXCEPT !.op = tick_op("probe", err),
                                       !.probe = after_tick(err, "backoff")]
               /\ state' = state
          \/ /\ state' = set_last_change([state EXCEPT !.light_on = ~state.light_on],
                                         datetime_now(clock))
             /\ hist' = [hist EXCEPT !.op = "probe_flip", !.probe = "saving",
                                     !.writes = enqueue_save(hist, "probe", state'),
                                     !.overlap = hist.overlap \/ write_pending(hist, "sched")]
  /\ UNCHANGED <<running, db, result, task_frame>>

\* main.py:275-312: the save of set_light_on has returned and the handler
\* runs to its end, or raises
ProbeSaved ==
  /\ hist.probe = "saving"
  /\ ~write_pending(hist, "probe")
  /\ IF hist.probe_cancel
     THEN hist' = [hist EXCEPT !.op = "probe_end", !.probe = "done"]
     ELSE \E err \in BOOLEAN :
            hist' = [hist EXCEPT !.op = tick_op("probe", err),
                                 !.probe = after_tick(err, "backoff")]
  /\ UNCHANGED <<running, state, db, result, task_frame>>

\* main.py:138, the sleep after an error ends
ProbeBackoff ==
  /\ hist.probe = "backoff"
  /\ hist' = IF hist.probe_cancel
             THEN [hist EXCEPT !.op = "probe_end", !.probe = "done"]
             ELSE [hist EXCEPT !.op = "probe_backoff", !.probe = "sleep"]
  /\ UNCHANGED <<running, state, db, result, task_frame>>

\* main.py:141 and 146
SchedTop ==
  /\ hist.sched = "sleep"
  /\ hist' = IF hist.sched_cancel \/ ~running
             THEN [hist EXCEPT !.op = "sched_end", !.sched = "done"]
             ELSE [hist EXCEPT !.op = "sched_tick", !.sched = "fetch",
                               !.sched_n = 1 - hist.sched_n]
  /\ UNCHANGED <<running, state, db, result, task_frame>>

\* main.py:142-145 with 203-226: _fetch_schedule finds nothing new, raises, or
\* finds a new commit with the known fingerprint and calls update_commit_sha,
\* which assigns the state and awaits the save
SchedFetch ==
  /\ hist.sched = "fetch"
  /\ IF hist.sched_cancel
     THEN /\ hist' = [hist EXCEPT !.op = "sched_end", !.sched = "done"]
          /\ state' = state
     ELSE \/ \E err \in BOOLEAN :
               /\ hist' = [hist EXCEPT !.op = tick_op("sched", err),
                                       !.sched = after_tick(err, "sleep")]
               /\ state' = state
          \/ /\ state' = [state EXCEPT !.last_image_commit_sha = NewSha]
             /\ hist' = [hist EXCEPT !.op = "sched_sha", !.sched = "saving",
                                     !.writes = enqueue_save(hist, "sched", state'),
                                     !.overlap = hist.overlap \/ write_pending(hist, "probe")]
  /\ UNCHANGED <<running, db, result, task_frame>>

\* main.py:226-231 and 257-262: the save of update_commit_sha has returned and
\* _update_light_message_schedule reads state.light_on
SchedSaved ==
  /\ hist.sched = "saving"
  /\ ~write_pending(hist, "sched")
  /\ IF hist.sched_cancel
     THEN /\ hist' = [hist EXCEPT !.op = "sched_end", !.sched = "done"]
          /\ result' = result
     ELSE /\ hist' = [hist EXCEPT !.op = "sched_read", !.sched = "sleep"]
          /\ result' = [op |-> "read", light_on |-> state.light_on,
                        half_applied |-> write_pending(hist, "probe")]
  /\ UNCHANGED <<running, state, db, task_frame>>

\* database.py:139-144, the connection runs the oldest queued write
WriteDone ==
  /\ hist.writes # << >>
  /\ db' = Some(Head(hist.writes).record)
  /\ hist' = [hist EXCEPT !.op = "write", !.writes = Tail(hist.writes)]
  /\ UNCHANGED <<running, state, result, task_frame>>

StartStep == StartInitDb \/ StartLoadState \/ StartSpawn \/ StartReturn

ProbeStep == ProbeTop \/ ProbeCheck \/ ProbeSaved \/ ProbeBackoff

SchedStep == SchedTop \/ SchedFetch \/ SchedSaved

NextA ==
  \/ StartInitDb \/ StartLoadState \/ StartSpawn \/ StartReturn
  \/ Signal \/ StopClose \/ MainExit
  \/ ProbeTop \/ ProbeCheck \/ ProbeSaved \/ ProbeBackoff
  \/ SchedTop \/ SchedFetch \/ SchedSaved
  \/ WriteDone

\* the event loop runs every task that is ready: a sleep ends, every awaited
\* request has a timeout, the connection executes what is queued.  The signal
\* is not fair: it may never come.
FairA ==
  /\ WF_vars(StartStep)
  /\ WF_vars(StopClose \/ MainExit)
  /\ WF_vars(ProbeStep)
  /\ WF_vars(SchedStep)
  /\ WF_vars(WriteDone)

SpecA == InitA /\ [][NextA]_vars /\ FairA

----------------------------------------------------------------------------
(* Properties *)

Ticked == running /\ hist.op = "check"

EmittedOff == Ticked /\ hist.emitted # << >> /\ hist.emitted[1].cb = "OFF"

EmittedOn == Ticked /\ hist.emitted # << >> /\ hist.emitted[1].cb = "ON"

\* real seconds between the first failed probe of the current window and the last tick
RealElapsed == IF g_first_fail = None THEN 0 ELSE clock - g_first_fail[1]

\* C1: the detector is Dark only if it started Dark, or it went Dark on a failed
\* probe taken at least PING_TIMEOUT_THRESHOLD seconds after the first failed
\* probe since the last success (or since start).
C1_DarkOnlyAfterThreshold ==
  (running /\ ~monitor.current_state) =>
     \/ dark.how = "initial"
     \/ dark.how = "probe" /\ dark.failed /\ dark.elapsed >= PING_TIMEOUT_THRESHOLD

\* C2: a successful probe while Dark makes the detector Lit on that tick and
\* calls on_light_on exactly once, whatever the failures before it.
C2_RecoveryImmediate ==
  (Ticked /\ hist.success /\ ~hist.was_lit) =>
     /\ monitor.current_state
     /\ Len(hist.emitted) = 1
     /\ hist.emitted[1].cb = "ON"

C2_Witness ==
  Ticked /\ hist.success /\ ~hist.was_lit /\ hist.prev = "fail" /\ monitor.current_state

\* C3: every on_light_off call carries the datetime of the first failed probe of
\* the current window, and the handler records that instant as
\* last_change_timestamp.
C3_BackdatedStart ==
  EmittedOff =>
     /\ g_first_fail # None
     /\ hist.emitted[1].backdated = Some(datetime_now(g_first_fail[1]))
     /\ last_call # None
     /\ last_call[1].custom_time = hist.emitted[1].backdated
     /\ ~state.light_on
     /\ state.last_change_timestamp = g_first_fail[1]

\* probes fail from t on, the event fires at t + 120 and reports t
C3_Witness ==
  /\ EmittedOff
  /\ tzrule = "none"
  /\ RealElapsed = PING_TIMEOUT_THRESHOLD
  /\ state.last_change_timestamp = clock - PING_TIMEOUT_THRESHOLD

\* C4: a failed probe taken while Lit, PING_TIMEOUT_THRESHOLD seconds or more
\* after the first failed probe of the window, makes the detector Dark and calls
\* on_light_off on that tick.
C4_ThresholdTick ==
  (Ticked /\ ~hist.success /\ hist.was_lit /\ RealElapsed >= PING_TIMEOUT_THRESHOLD) =>
     /\ ~monitor.current_state
     /\ Len(hist.emitted) = 1
     /\ hist.emitted[1].cb = "OFF"

\* C5: a successful probe clears first_failure_time and emits no light-off; the
\* first failed probe after a success (or after start) opens a window with
\* elapsed 0 and emits nothing.
C5_SuccessResetsWindow ==
  Ticked =>
     /\ hist.success =>
          /\ monitor.first_failure_time = None
          /\ \A i \in DOMAIN hist.emitted : hist.emitted[i].cb # "OFF"
     /\ (~hist.success /\ hist.prev # "fail") =>
          /\ monitor.first_failure_time = Some(datetime_now(clock))
          /\ RealElapsed = 0
          /\ hist.emitted = << >>

\* one failed probe, then a successful one, the detector Lit throughout
C5_Witness ==
  /\ Ticked /\ hist.success /\ hist.was_lit /\ hist.prev = "fail"
  /\ monitor.first_failure_time = None
  /\ power_events = << >>

DirOf(lit) == IF lit THEN "ON" ELSE "OFF"

\* C6: whenever the process is up, the successive flips of the persisted lit
\* flag, the event log and the delivered light notifications list the same
\* directions in the same order.
C6_FlipsMatched ==
  running =>
     /\ [i \in DOMAIN flips |-> DirOf(flips[i])] = power_events
     /\ [i \in DOMAIN sent |-> sent[i].kind] = power_events

EffectiveCall == last_call # None /\ last_call[1].before.light_on # last_call[1].is_on

NoOpCall == last_call # None /\ last_call[1].before.light_on = last_call[1].is_on

\* the instant of the event handed to the last set_light_on call
CallInstant ==
  IF last_call[1].custom_time # None THEN timestamp(last_call[1].custom_time[1])
  ELSE last_call[1].at

\* C7: set_light_on in the other direction returns the seconds from the
\* previous last_change_timestamp to the event instant, flips light_on, stores
\* the event instant and saves once.
C7_TransitionResult ==
  (EffectiveCall /\ last_call[1].before.last_change_timestamp # 0) =>
     /\ last_call[1].ret = Some(CallInstant - last_call[1].before.last_change_timestamp)
     /\ last_call[1].after.light_on = last_call[1].is_on
     /\ last_call[1].after.last_change_timestamp = CallInstant
     /\ last_call[1].nsave = 1

\* C8: set_light_on in the direction light_on already has returns None, leaves
\* the record as it was and performs no save.
C8_NoOp ==
  NoOpCall =>
     /\ last_call[1].ret = None
     /\ last_call[1].after = last_call[1].before
     /\ state = last_call[1].before
     /\ last_call[1].nsave = 0
     /\ last_call[1].db_after = last_call[1].db_before

C8_Witness ==
  /\ NoOpCall
  /\ hist.op = "call"
  /\ last_call[1].custom_time # None
  /\ timestamp(last_call[1].custom_time[1]) # state.last_change_timestamp

C10_DurationNonNegative ==
  /\ (last_call # None /\ last_call[1].ret # None) => last_call[1].ret[1] >= 0
  /\ (Ticked /\ hist.real # None) => hist.real[1] >= 0

\* start() found a stored record and read it
LoadedRecord == running /\ hist.op = "start" /\ hist.loaded = "record"

\* start() found no stored record, or could not read it
LoadedDefault == running /\ hist.op = "start" /\ hist.loaded = "default"

\* C11: load_state restores every field of the stored record as it was saved,
\* and for a stored record with light_on false the duration since the change,
\* taken at the instant of the restart, is that instant minus the stored
\* last_change_timestamp.
C11_SaveLoadIdentity ==
  LoadedRecord =>
     /\ state = db[1]
     /\ ~state.light_on =>
          get_current_duration(state, clock) = clock - state.last_change_timestamp

\* C12: with no stored record, or a failed read, load_state yields the defaults:
\* light_on true, last_change_timestamp the current instant, empty commit sha
\* and fingerprint, no message id; nothing is raised.
C12_DefaultOnMissingRecord ==
  LoadedDefault =>
     /\ state = [BotState EXCEPT !.last_change_timestamp = clock]
     /\ state.light_on
     /\ state.last_image_commit_sha = ""
     /\ state.last_schedule_fingerprint = ""
     /\ state.last_light_message_id = None
     /\ ~hist.raised

\* the read of a stored Dark record fails and the process starts Lit
C12_Witness == LoadedDefault /\ db # None /\ ~db[1].light_on /\ state.light_on

Polled == hist.op = "fetch"

\* the source returned a new payload (new commit sha, both files downloaded)
PolledNew == Polled /\ hist.new

\* the last poll fetched a complete payload whose fingerprint is not the stored one
PolledChanged ==
  /\ PolledNew
  /\ is_full_schedule(hist.resp.json[1])
  /\ get_schedule_fingerprint(hist.resp.json[1]) #
       hist.before.state.last_schedule_fingerprint

\* C14: after a poll in which the source returned a new payload with commit sha
\* t, last_image_commit_sha is t and a save was made, whether the payload is
\* complete or not and whether its fingerprint changed or not.
C14_TokenAlwaysAdvances ==
  PolledNew =>
     /\ state.last_image_commit_sha = hist.resp.sha
     /\ hist.nsave >= 1
     /\ hist.lastsave = Some(TRUE) => db = Some(state)

\* C15: a poll changes last_schedule_fingerprint and hands one schedule
\* notification to the channel exactly when it fetched a complete payload whose
\* fingerprint differs from the stored one; every other poll leaves the
\* fingerprint and the notifications as they were.
C15_NotifyIffChanged ==
  Polled =>
     IF PolledChanged
     THEN /\ state.last_schedule_fingerprint = get_schedule_fingerprint(hist.resp.json[1])
          /\ state.last_schedule_fingerprint # hist.before.state.last_schedule_fingerprint
          /\ Len(schedule_sent) = Len(hist.before.sent) + 1
          /\ schedule_sent[Len(schedule_sent)].fingerprint = state.last_schedule_fingerprint
     ELSE /\ state.last_schedule_fingerprint = hist.before.state.last_schedule_fingerprint
          /\ schedule_sent = hist.before.sent

\* C16: a fetched payload that is not complete leaves schedule_data, the
\* parser's cached_data, the schedule table and the notifications untouched.
C16_IncompleteLeavesCache ==
  (PolledNew /\ ~is_full_schedule(hist.resp.json[1])) =>
     /\ schedule_data = hist.before.schedule_data
     /\ cached_data = hist.before.cached_data
     /\ schedule_table = hist.before.table
     /\ schedule_sent = hist.before.sent

\* get_outages_for_date was called on a day that has a table
GotOutages == result.op = "get_outages_for_date" /\ data[result.day] # None

\* the 48 half-hour slots of a day: slot k covers minutes (k-1)*30 .. k*30
Slots == 1..(2 * LastHour)

\* slot k lies in an hour whose code confirms an outage for that half
slot_confirmed(table, k) ==
  IF k % 2 = 1 THEN code_at(table, (k + 1) \div 2) \in {"no", "first"}
  ELSE code_at(table, (k + 1) \div 2) \in {"no", "second"}

\* the last slot of the maximal run of confirmed slots that starts at slot a
run_end(table, a) ==
  CHOOSE b \in a..(2 * LastHour) :
    /\ \A k \in a..b : slot_confirmed(table, k)
    /\ b = 2 * LastHour \/ ~slot_confirmed(table, b + 1)

\* the maximal runs of confirmed slots, as periods of the day that starts at base
MaximalRuns(table, base) ==
  {[start |-> base + (a - 1) * HalfHour, end |-> base + run_end(table, a) * HalfHour] :
     a \in {k \in Slots : slot_confirmed(table, k) /\ (k = 1 \/ ~slot_confirmed(table, k - 1))}}

\* the table of the scenario: 8 no, 9 no, 10 first
ScenarioTable ==
  [h \in CodedHours |-> CASE h \in {8, 9} -> "no" [] h = 10 -> "first" [] OTHER -> "yes"]

\* C17: get_outages_for_date returns exactly the maximal runs of confirmed
\* half-hour slots of the day, each once; for 8 no, 9 no, 10 first it returns
\* the single period 07:00-09:30.
C17_MergedRuns ==
  GotOutages =>
     /\ {result.ret[i] : i \in DOMAIN result.ret} =
          MaximalRuns(data[result.day][1], result.day * MinutesPerDay)
     /\ Len(result.ret) =
          Cardinality(MaximalRuns(data[result.day][1], result.day * MinutesPerDay))
     /\ (result.day = 0 /\ data[0] = Some(ScenarioTable)) =>
          result.ret = <<[start |-> 7 * MinutesPerHour, end |-> 9 * MinutesPerHour + HalfHour]>>

C17_Witness ==
  /\ GotOutages /\ result.day = 0 /\ data[0] = Some(ScenarioTable)
  /\ result.ret = <<[start |-> 420, end |-> 570]>>

\* some period covers the minutes a..b
covered(periods, a, b) ==
  \E i \in DOMAIN periods : periods[i].start <= a /\ b <= periods[i].end

\* the day table that confirms exactly the half hours the periods cover
codes_of(periods, base) ==
  [h \in 1..LastHour |->
     CASE covered(periods, h_start(base, h), h_start(base, h) + MinutesPerHour) -> "no"
       [] covered(periods, h_start(base, h), h_start(base, h) + HalfHour) -> "first"
       [] covered(periods, h_start(base, h) + HalfHour, h_start(base, h) + MinutesPerHour)
            -> "second"
       [] OTHER -> "yes"]

\* C18: the periods get_outages_for_date returns have start < end, are in
\* strictly chronological order and neither overlap nor touch; merging the
\* table of the returned periods again returns the same periods.
C18_OrderedDisjoint ==
  result.op = "get_outages_for_date" =>
     /\ \A i \in DOMAIN result.ret : result.ret[i].start < result.ret[i].end
     /\ \A i \in 1..(Len(result.ret) - 1) : result.ret[i].end < result.ret[i + 1].start
     /\ get_outages_for_date(
          result.day :> Some(codes_of(result.ret, result.day * MinutesPerDay)),
          result.day) = result.ret

\* three periods, the second one merged from two sub-intervals
C18_Witness ==
  /\ result.op = "get_outages_for_date"
  /\ Len(result.ret) = 3
  /\ result.ret[2].end - result.ret[2].start > MinutesPerHour

ExpectedNextOutage ==
  IF \E i \in DOMAIN get_outages_for_date(data, 0) :
       get_outages_for_date(data, 0)[i].start > from_time
  THEN [period |-> Some(get_outages_for_date(data, 0)[
                          CHOOSE i \in DOMAIN get_outages_for_date(data, 0) :
                            /\ get_outages_for_date(data, 0)[i].start > from_time
                            /\ \A j \in 1..(i - 1) :
                                 get_outages_for_date(data, 0)[j].start <= from_time]),
        is_tomorrow |-> FALSE]
  ELSE IF get_outages_for_date(data, 1) # << >>
  THEN [period |-> Some(get_outages_for_date(data, 1)[1]), is_tomorrow |-> TRUE]
  ELSE [period |-> None, is_tomorrow |-> FALSE]

\* C20: get_next_outage returns a pair (period, is_tomorrow) whose period is
\* today's first period starting after from_time, else tomorrow's first, else
\* none.
C20_NextOutagePair ==
  result.op = "get_next_outage" =>
     /\ result.pair
     /\ result.ret = ExpectedNextOutage.period

\* from_time lies inside one of today's outages
InsideOutage == covered(get_outages_for_date(data, 0), from_time, from_time + 1)

\* today's outage that from_time lies inside
OngoingOutage ==
  get_outages_for_date(data, 0)[
    CHOOSE i \in DOMAIN get_outages_for_date(data, 0) :
      /\ get_outages_for_date(data, 0)[i].start <= from_time
      /\ from_time < get_outages_for_date(data, 0)[i].end]

\* C21: when from_time lies inside one of today's outages, get_next_outage
\* returns that whole outage, with is_tomorrow false, and not a later one.
C21_OngoingOutageReturned ==
  (result.op = "get_next_outage" /\ InsideOutage) =>
     /\ result.pair
     /\ result.ret = Some(OngoingOutage)

\* the end of today's first period ending after from_time, else the end of
\* tomorrow's first period
ExpectedPowerOn ==
  IF \E i \in DOMAIN get_outages_for_date(data, 0) :
       get_outages_for_date(data, 0)[i].end > from_time
  THEN [instant |-> Some(get_outages_for_date(data, 0)[
                           CHOOSE i \in DOMAIN get_outages_for_date(data, 0) :
                             /\ get_outages_for_date(data, 0)[i].end > from_time
                             /\ \A j \in 1..(i - 1) :
                                  get_outages_for_date(data, 0)[j].end <= from_time].end),
        is_tomorrow |-> FALSE]
  ELSE IF get_outages_for_date(data, 1) # << >>
  THEN [instant |-> Some(get_outages_for_date(data, 1)[1].end), is_tomorrow |-> TRUE]
  ELSE [instant |-> None, is_tomorrow |-> FALSE]

\* C22: get_next_power_on returns a pair (instant, is_tomorrow): the end of
\* today's first period ending after from_time, else the end of tomorrow's
\* first period, else none; a returned instant is never before from_time.
C22_NextPowerOnPair ==
  result.op = "get_next_power_on" =>
     /\ result.pair
     /\ result.ret = ExpectedPowerOn.instant
     /\ result.ret # None => result.ret[1] >= from_time

\* one of today's outages has started at from_time
StartedOutage ==
  \E i \in DOMAIN get_outages_for_date(data, 0) :
    get_outages_for_date(data, 0)[i].start <= from_time

\* the latest of today's outages that has started at from_time
LatestStarted ==
  get_outages_for_date(data, 0)[
    CHOOSE i \in DOMAIN get_outages_for_date(data, 0) :
      /\ get_outages_for_date(data, 0)[i].start <= from_time
      /\ \A j \in DOMAIN get_outages_for_date(data, 0) :
           get_outages_for_date(data, 0)[j].start <= from_time => j <= i]

\* C23: when one of today's outages has started at from_time,
\* get_next_power_on returns the end of the latest such outage with
\* is_tomorrow false, also when that end is before from_time; with an empty
\* table today and nothing for tomorrow it returns (none, false).
C23_OverduePowerOn ==
  result.op = "get_next_power_on" =>
     /\ result.pair
     /\ StartedOutage => result.ret = Some(LatestStarted.end)
     /\ (data[0] = Some(<< >>) /\ data[1] = None) => result.ret = None

\* the monitored group's table under the key of day d, 0 when there is none
group_entry(doc, d) ==
  IF d = 0
  THEN (IF doc.entries["ts_today"] # None THEN doc.entries["ts_today"][1].group ELSE 0)
  ELSE (IF doc.entries["ts_tomorrow"] # None THEN doc.entries["ts_tomorrow"][1].group ELSE 0)

\* the two documents agree on the monitored group's entries of today and tomorrow
AgreeOnGroup == \A d \in 0..1 : group_entry(data[1], d) = group_entry(data[2], d)

\* C24: the fingerprints of two payloads are equal exactly when the payloads
\* agree on the monitored group's entries for today and tomorrow; other
\* groups, other dates and other keys never change the fingerprint.
C24_FingerprintIffRelevant ==
  result.op = "get_schedule_fingerprint" =>
     (result.ret[1] = result.ret[2] <=> AgreeOnGroup)

\* C25: is_full_schedule returns true exactly when the payload has a key of
\* today and a key of tomorrow, whatever groups they hold; a key that is no
\* valid timestamp is ignored, and an empty payload gives false.
C25_FullIffBothDays ==
  result.op = "is_full_schedule" =>
     /\ result.out.raises = "none"
     /\ result.out.ret = (/\ data[1].entries["ts_today"] # None
                          /\ data[1].entries["ts_tomorrow"] # None)

\* a poll whose fetch failed or reported the commit the bot already has
FetchedNothing ==
  /\ Polled
  /\ \/ ~hist.resp.api_ok
     \/ hist.resp.sha = hist.before.state.last_image_commit_sha
     \/ ~hist.resp.image_ok
     \/ hist.resp.json = None

\* C29: a poll whose fetch fails or reports no change leaves the commit sha,
\* the fingerprint, the cached schedule and the store as they were, saves
\* nothing and sends nothing; the next poll asks with the same commit sha.
C29_FailedFetchChangesNothing ==
  [][ /\ FetchedNothing' =>
           /\ state' = state
           /\ db' = db
           /\ schedule_data' = schedule_data
           /\ cached_data' = cached_data
           /\ schedule_table' = schedule_table
           /\ schedule_sent' = schedule_sent
           /\ hist'.nsave = 0
      /\ (FetchedNothing /\ Polled') =>
           hist'.before.state.last_image_commit_sha =
             hist.before.state.last_image_commit_sha ]_vars

\* after a schedule was published, a poll that reports the same commit
C29_Witness ==
  /\ FetchedNothing
  /\ hist.n = MaxPolls
  /\ hist.resp.api_ok /\ hist.resp.image_ok /\ hist.resp.json # None
  /\ hist.resp.sha = state.last_image_commit_sha
  /\ schedule_sent # << >>
  /\ state = hist.before.state

\* the last set_light_on call changed the state and its save failed
FailedSave == EffectiveCall /\ last_call[1].nsave = 1 /\ last_save = "failed"

\* C30: when the save of a transition fails, set_light_on still returns the
\* duration, the state in memory holds the new light_on and timestamp, the
\* stored record is the one from before the call, and the next call decides
\* on the state in memory.
C30_FailedSaveKeepsMemory ==
  [][ /\ FailedSave' =>
           /\ last_call'[1].ret # None
           /\ state'.light_on = last_call'[1].is_on
           /\ state'.light_on # state.light_on
           /\ state'.last_change_timestamp = CallInstant'
           /\ db' = db
      /\ (FailedSave /\ last_call' # None) =>
           /\ last_call'[1].before = state
           /\ (last_call'[1].ret = None) = (last_call'[1].is_on = state.light_on) ]_vars

\* a transition whose save failed while the store holds the state before it
C30_Witness ==
  /\ FailedSave
  /\ db # None
  /\ db[1] = last_call[1].before
  /\ state.light_on # db[1].light_on
  /\ state.last_change_timestamp # db[1].last_change_timestamp

\* C26: the mutating operations of the probe loop and of the schedule loop
\* never overlap, and the schedule loop never reads the state while a
\* transition is half applied: light_on assigned in memory, its save not yet
\* executed.
C26_NoHalfAppliedRead ==
  /\ ~hist.overlap
  /\ result.op = "read" => ~result.half_applied

\* stop() has returned
StopReturned == hist.main \in {"await_task", "exited"}

\* C27: after the shutdown signal, whenever it comes, no loop is left once
\* stop() has returned, and the process terminates.
C27_ShutdownTerminates ==
  /\ [](StopReturned => ~alive(hist.probe) /\ ~alive(hist.sched))
  /\ (hist.main # "wait") ~> (hist.main = "exited")

\* C28: no error in a tick ends a loop: while _running is set, the probe loop
\* and the schedule loop each tick again and again.
C28_LoopsKeepTicking ==
  /\ (running /\ hist.probe_n = 0) ~> (~running \/ hist.probe_n = 1)
  /\ (running /\ hist.probe_n = 1) ~> (~running \/ hist.probe_n = 0)
  /\ (running /\ hist.sched_n = 0) ~> (~running \/ hist.sched_n = 1)
  /\ (running /\ hist.sched_n = 1) ~> (~running \/ hist.sched_n = 0)

\* the schedule refresh has just raised while the probe loop sleeps off an
\* error of its own, and both loops have ticked before
C28_Witness ==
  /\ running
  /\ hist.op = "sched_error"
  /\ hist.probe = "backoff"
  /\ hist.sched = "sleep"
  /\ result.op = "read"
  /\ state.light_on # BotState.light_on

\* C31: ping returns true exactly when the connection completes within the
\* timeout, returns false without raising for every timeout or connection
\* error, and a tick makes one probe attempt.
C31_PingIffConnected ==
  result.op = "probe" =>
     /\ result.ping.raises = "none"
     /\ result.ping.ret = (result.conn = "connected")
     /\ result.attempts = 1

\* the name of the first event a detector that starts in state cs can emit
first_event(cs) == IF cs THEN "OFF" ELSE "ON"

\* C33: the events of a detector alternate between light-off and light-on,
\* and the first one is light-on when the detector starts dark and light-off
\* when it starts lit; a detector that starts dark emits no light-off before
\* a light-on.
C33_EventsAlternate ==
  hist.op \in {"init", "check"} =>
     /\ \A i \in 1..(Len(hist.events) - 1) : hist.events[i] # hist.events[i + 1]
     /\ hist.events # << >> => hist.events[1] = first_event(hist.initial)
     /\ monitor.current_state = (IF Len(hist.events) % 2 = 0 THEN hist.initial
                                 ELSE ~hist.initial)

\* a detector resumed as dark has emitted light-on, light-off and light-on
C33_Witness ==
  /\ hist.op = "check"
  /\ ~hist.initial
  /\ hist.events = <<"ON", "OFF", "ON">>

\* C34: two detectors that differ only in the pending-alert flag and receive
\* the same probes at the same instants stay in the same current state with
\* the same first failure time, and emit the same events with the same
\* timestamps.
C34_PendingFlagNoEffect ==
  /\ hist.op \in {"init", "check"} =>
        /\ monitor.current_state = data.current_state
        /\ monitor.first_failure_time = data.first_failure_time
  /\ result.op = "probe" => result.emitted = result.emitted_twin

\* the light-off event fires for a detector whose pending alert was never
\* logged, and for its twin
C34_Witness ==
  /\ result.op = "probe"
  /\ ~result.was.pending_alert_logged
  /\ result.emitted # << >>
  /\ result.emitted[1].cb = "OFF"
  /\ result.emitted[1].backdated # None
  /\ result.emitted_twin = result.emitted

\* the day table with every hour label present, a speculative code or a
\* missing label replaced by yes
all_yes(table) ==
  [h \in 1..LastHour |->
     IF h \in DOMAIN table /\ table[h] \notin SpeculativeCodes THEN table[h] ELSE "yes"]

\* the payload of the call with every day table so replaced
DataAllYes ==
  [d \in DOMAIN data |-> IF data[d] = None THEN None ELSE Some(all_yes(data[d][1]))]

\* the table of today has a speculative code
HasSpeculative ==
  /\ data[0] # None
  /\ \E h \in DOMAIN data[0][1] : data[0][1][h] \in SpeculativeCodes

\* C32: only no, first and second produce outage time; replacing every
\* speculative code (maybe, mfirst, msecond) and every missing hour by yes
\* changes the result of none of get_outages_for_date, get_next_outage and
\* get_next_power_on.
C32_SpeculativeIsPower ==
  /\ result.op = "get_outages_for_date" =>
        /\ result.ret = get_outages_for_date(DataAllYes, result.day)
        /\ \A i \in DOMAIN result.ret : \A k \in Slots :
              (/\ result.ret[i].start <= result.day * MinutesPerDay + (k - 1) * HalfHour
               /\ result.day * MinutesPerDay + k * HalfHour <= result.ret[i].end)
              => data[result.day][1][(k + 1) \div 2] \in {"no", "first", "second"}
  /\ result.op = "get_next_outage" => result.ret = get_next_outage(DataAllYes, from_time)
  /\ result.op = "get_next_power_on" => result.ret = get_next_power_on(DataAllYes, from_time)

\* a speculative hour between two confirmed ones splits the outage in two
C32_Witness ==
  /\ result.op = "get_outages_for_date" /\ result.day = 0
  /\ HasSpeculative
  /\ data[0][1][8] = "no" /\ data[0][1][9] = "msecond" /\ data[0][1][10] = "no"
  /\ \E i \in 1..(Len(result.ret) - 1) :
       /\ result.ret[i].end = 8 * MinutesPerHour
       /\ result.ret[i + 1].start = 9 * MinutesPerHour

\* C38: the payload filtered to the monitored group gives the fingerprint
\* of the original payload (and with it the answers read through the same
\* keys).
C38_FilterKeepsFingerprint ==
  result.op = "filter_schedule_for_group" => result.fingerprint = result.original

\* the last poll saved the record with the commit sha it fetched
SavedToken ==
  /\ PolledNew
  /\ hist.lastsave = Some(TRUE)
  /\ db # None
  /\ db[1].last_image_commit_sha = hist.resp.sha

\* C37: whenever last_image_commit_sha is saved as t, the newest row of the
\* schedule table, the one start() reloads, is the group-filtered payload
\* fetched under t.
C37_StoredScheduleIsOfToken ==
  SavedToken =>
     /\ schedule_table # << >>
     /\ schedule_table[Len(schedule_table)] = filter_schedule_for_group(hist.resp.json[1])

\* C39: a refresh that finds a changed fingerprint advances
\* last_schedule_fingerprint, has it persisted, and attempts exactly one send;
\* no two successive notifications carry the same fingerprint, also when the
\* first of them was not delivered.
C39_ChangeAnnouncedOnce ==
  /\ PolledChanged =>
       /\ state.last_schedule_fingerprint = get_schedule_fingerprint(hist.resp.json[1])
       /\ db = Some(json_dumps(state))
       /\ Len(schedule_sent) = Len(hist.before.sent) + 1
  /\ \A i \in 1..(Len(schedule_sent) - 1) :
       schedule_sent[i].fingerprint # schedule_sent[i + 1].fingerprint

\* C35: between two ticks the detector's current_state equals light_on of
\* the state in memory, from start() on, and a tick that called on_light_on or
\* on_light_off made one set_light_on call in that direction that was not a
\* no-op, whatever the probes, the failed writes and sends, and the exception
\* the handler ends with.
C35_DetectorAgreesWithState ==
  /\ running => monitor.current_state = state.light_on
  /\ (hist.op = "check" /\ hist.emitted # << >>) =>
       /\ EffectiveCall
       /\ last_call[1].is_on = (hist.emitted[1].cb = "ON")
       /\ last_call[1].after.light_on = last_call[1].is_on

\* on_light_off was called, its save failed and it ended with an exception
C35_Witness ==
  /\ hist.op = "check" /\ hist.emitted # << >> /\ hist.emitted[1].cb = "OFF"
  /\ hist.raised
  /\ last_save = "failed"
  /\ ~monitor.current_state /\ ~state.light_on
  /\ flips = << >>

====
